---- MODULE Spec2Model ----
(***************************************************************************)
(* A model of one call of RPCClient.Do (go-tezos), together with the       *)
(* parties it talks to: the node that writes the response, the consumer    *)
(* of the sink channel and the owner of the request context.               *)
(*                                                                         *)
(* Do is cut into steps at the points where the Go code can block: the     *)
(* HTTP round trip, a read of the response body by the JSON decoder, the   *)
(* reflect.Select that races the send on the sink against ctx.Done(), and  *)
(* ioutil.ReadAll of an error body.  Everything between two such points    *)
(* is one action.                                                          *)
(*                                                                         *)
(* Library behaviour the model relies on:                                  *)
(*  - encoding/json Decoder.Decode returns io.EOF at a clean end of the    *)
(*    input, io.ErrUnexpectedEOF when the input ends inside a value, a     *)
(*    SyntaxError on invalid text, an UnmarshalTypeError when a valid      *)
(*    value does not fit the destination type, and passes any other read   *)
(*    error through unchanged;                                             *)
(*  - the chunked body reader of net/http returns io.ErrUnexpectedEOF      *)
(*    when the connection ends without the terminal zero-length chunk;     *)
(*  - a body read that is pending when the request context is done fails   *)
(*    with the context's error;                                            *)
(*  - reflect.Select blocks until a case is ready and picks one of the     *)
(*    ready cases at random;                                               *)
(*  - Close of a client response body reports no error.                    *)
(***************************************************************************)
EXTENDS Integers, Sequences, FiniteSets, TLC

VARIABLES
    pkg,          \* which copy of the package is linked
    v,            \* kind of the destination passed to Do
    chanCap,      \* capacity of the sink channel
    dest,         \* what a value destination points to
    ctxDone,      \* the request context's Done channel is closed
    ctxErr,       \* ctx.Err()
    pc,           \* position of Do
    resp,         \* status code and Content-Type of the response
    body,         \* JSON values the node has written to the body so far
    tail,         \* trailing text after the last complete value
    ended,        \* how the body ended ("open" while it has not)
    pos,          \* number of body values the decoder has consumed
    chunkVal,     \* the element Do is about to send
    decErr,       \* result of the last Decode or ReadAll
    ch,           \* buffer of the sink channel
    accepting,    \* a receiver is waiting on the sink channel
    sent,         \* history: elements sent on the sink, in order
    sentAfterDone,\* history: an element was sent after ctx.Done() was closed
    err,          \* value returned by Do
    bodyClosed,   \* number of resp.Body.Close() calls
    decodeCalls,  \* number of JSON decoder / parser invocations
    call,         \* decoders: the UnmarshalJSON method under call
    data,         \* decoders: the JSON value handed to it
    target,       \* decoders: what the receiver / the targets hold
    derr,         \* decoders: the error it returned
    loopIdx,      \* decoders: the loop index at its return
    dpc,          \* decoders: position of the call
    h,            \* health: the fields of the HealthHandler
    hpc,          \* health: position of poll
    polls,        \* health: history: what each poll got, the initial one first
    reported,     \* health: history: h.ok after each poll
    gbPc,         \* getBootstrapped: position of the call
    cnt,          \* getBootstrapped: records received
    gbClosed,     \* getBootstrapped: its goroutine has closed the channel
    gbRes,        \* getBootstrapped: what it returned
    lpc,          \* listener: position of the listener
    outcomes,     \* listener: history: what each returned attempt returned
    counter,      \* listener: the operations counter, by kind of operation
    delivered,    \* listener: history: the lists sent to the channel
    lClosed,      \* listener: the deferred close(ch) has run
    now,          \* listener: the time, counted in retry delays
    times,        \* listener: history: when each attempt returned
    pools,        \* shutdown: number of pools the collector was made with
    wg,           \* shutdown: counter of the collector's WaitGroup
    sem,          \* shutdown: the channel sem is closed
    callerDone,   \* shutdown: the context passed to Shutdown is done
    sdPc,         \* shutdown: position of Shutdown
    sdRes,        \* shutdown: what Shutdown returned
    closed,       \* the caller of Do has closed the sink channel
    heap,         \* collectors: the Service and RPCClient values, by address
    tasks         \* collectors: the calls of Collect and of the constructors

\* The variables of one call of Do and of its parties.
doVars == <<pkg, v, chanCap, dest, ctxDone, ctxErr, pc, resp, body, tail, ended,
            pos, chunkVal, decErr, ch, accepting, sent, sentAfterDone, err,
            bodyClosed, decodeCalls>>

\* The variables of a call of one of the JSON unmarshallers.
decVars == <<call, data, target, derr, loopIdx, dpc>>

\* The variables of the goroutine HealthHandler.poll.
healthVars == <<h, hpc, polls, reported>>

\* The variables of a call of the collector's getBootstrapped.
gbVars == <<gbPc, cnt, gbClosed, gbRes>>

\* The variables of a mempool listener.
listenerVars == <<lpc, outcomes, counter, delivered, lClosed, now, times>>

\* The variables of the collector's WaitGroup and of a call of Shutdown.
shutdownVars == <<pools, wg, sem, callerDone, sdPc, sdRes>>

\* The variables of the caller of Do.
callerVars == <<closed>>

\* The variables of the Service the collectors share and of their calls.
sharedVars == <<heap, tasks>>

\* What a call of Do leaves alone.
auxVars == <<decVars, healthVars, gbVars, listenerVars, shutdownVars, callerVars, sharedVars>>

\* What a call of an unmarshaller leaves alone.
decOthers == <<doVars, healthVars, gbVars, listenerVars, shutdownVars, callerVars, sharedVars>>

\* What HealthHandler.poll leaves alone.
healthOthers == <<doVars, decVars, gbVars, listenerVars, shutdownVars, callerVars, sharedVars>>

\* What getBootstrapped leaves alone, but for the variables of its Do.
gbOthers == <<decVars, healthVars, listenerVars, shutdownVars, callerVars, sharedVars>>

\* What a listener leaves alone, but for the variables of its Do.
listenerOthers == <<decVars, healthVars, gbVars, shutdownVars, callerVars, sharedVars>>

vars == <<doVars, auxVars>>

----------------------------------------------------------------------------
(* Bounds *)

MaxBody == 3        \* values the node writes to one streaming body
MaxCap  == 1        \* largest sink channel capacity

----------------------------------------------------------------------------
(* Constants of the program *)

StatusNoContent == 204

mediaType == <<"application/json">>

\* The two copies of the client: go-tezos/client.go and the vendored one.
Pkgs == {"go-tezos", "vendor"}

----------------------------------------------------------------------------
(* JSON values *)

Str(s) == [t |-> "string", s |-> s]
Num(s) == [t |-> "number", s |-> s]

Object(fields) == [t |-> "object", fields |-> fields]
Array(elems)   == [t |-> "array", elems |-> elems]
Null           == [t |-> "null"]

\* Stream elements as the node sends them on /monitor/bootstrapped.
Block1 == Object([block |-> Str("B1")])
Block2 == Object([block |-> Str("B2"), timestamp |-> Str("T2")])

\* RPC error objects.
ErrA     == Object([kind |-> Str("permanent"), id |-> Str("a")])
ErrB     == Object([kind |-> Str("temporary"), id |-> Str("b"), missing_key |-> Str("k")])
ErrNoId  == Object([kind |-> Str("permanent")])
ErrNumId == Object([kind |-> Str("permanent"), id |-> Num("5")])

\* A streaming body: blocks, and possibly a value of another type, which
\* is the last one Do reads.
Blocks     == {Block1, Block2}
StreamDocs == Blocks \cup {Num("7")}

ErrorDocs == {ErrA, ErrB, ErrNoId, ErrNumId, Null,
              Array(<<>>), Array(<<ErrA>>), Array(<<ErrA, ErrB>>),
              Array(<<ErrB, ErrA>>), Array(<<ErrA, Num("7")>>),
              Array(<<Num("7")>>), Array(<<ErrA, ErrNoId>>)}

\* The ways a body ends: the trailing text after the last complete value
\* (none, a truncated value, or invalid text) and what the reader reports
\* (a clean end, io.ErrUnexpectedEOF for a missing terminal chunk, or a
\* broken connection).
BodyEnds == {<<"", "eof">>, <<"", "unexpectedEOF">>, <<"", "reset">>,
             <<"partial", "eof">>, <<"malformed", "eof">>}

StatusCodes == {200, 204, 404, 500}

\* Content-Type header values, as sequences of tokens ("" is the empty one).
ContentTypes == {<<>>, <<"text/plain">>, <<"application/json">>,
                 <<"application/json", "; charset=utf-8">>}

\* strings.Contains
Contains(s, substr) ==
    \E i \in 1..(Len(s) + 1) :
        /\ i + Len(substr) - 1 <= Len(s)
        /\ SubSeq(s, i, i + Len(substr) - 1) = substr

----------------------------------------------------------------------------
(* Errors *)

Error(type) == [type |-> type, statusCode |-> 0, body |-> <<>>, msg |-> "", errors |-> <<>>]

nil == Error("nil")

EOF              == Error("io.EOF")
ErrUnexpectedEOF == Error("io.ErrUnexpectedEOF")
SyntaxError      == Error("json.SyntaxError")
TypeError        == Error("json.UnmarshalTypeError")
TransportError   == Error("transport")

CtxErrors == {Error("context.Canceled"), Error("context.DeadlineExceeded")}

----------------------------------------------------------------------------
(* The JSON decoder *)

\* The bytes of the body: the complete values followed by the trailing text.
Raw == [docs |-> body, tail |-> tail]

\* The zero value of the element type, and what a nil element pointer is.
ZeroElem == [Block |-> ""]
NilElem  == [Block |-> "<nil>"]

\* json.Unmarshal of one value into a BootstrappedBlock-like struct that
\* holds `into`: unknown fields are dropped, a field that is absent keeps
\* what it held, null changes nothing, a value of another JSON type is an
\* UnmarshalTypeError.
Unmarshal(doc, into) ==
    CASE doc.t = "null"   -> [err |-> nil, val |-> into]
      [] doc.t = "object" ->
            IF "block" \in DOMAIN doc.fields
            THEN IF doc.fields.block.t = "string"
                 THEN [err |-> nil, val |-> [Block |-> doc.fields.block.s]]
                 ELSE [err |-> TypeError, val |-> into]
            ELSE [err |-> nil, val |-> into]
      [] OTHER -> [err |-> TypeError, val |-> into]

\* Decode into reflect.New(typ.Elem()) for a channel of element pointers:
\* null leaves the new pointer nil, anything else allocates a zero element.
UnmarshalElem(doc) ==
    IF doc.t = "null" THEN [err |-> nil, val |-> NilElem]
    ELSE Unmarshal(doc, ZeroElem)

\* What Decode reports when no complete value is left in the input.
EndOfInput ==
    CASE tail = "malformed"      -> SyntaxError
      [] ended = "reset"         -> TransportError
      [] ended = "unexpectedEOF" -> ErrUnexpectedEOF
      [] tail = "partial"        -> ErrUnexpectedEOF
      [] OTHER                   -> EOF

----------------------------------------------------------------------------
(* Initial state: Do has been called with a request and a destination *)

\* No unmarshaller is under call.
DecodersIdle ==
    /\ call = "none"
    /\ data = Null
    /\ target = <<>>
    /\ derr = nil
    /\ loopIdx = 0
    /\ dpc = "idle"

\* No HealthHandler has been made.
HealthIdle ==
    /\ h = [threshold |-> 0, tcount |-> 0, ok |-> FALSE]
    /\ hpc = "idle"
    /\ polls = <<>>
    /\ reported = <<>>

\* No getBootstrapped is under call.
BootstrappedIdle ==
    /\ gbPc = "idle"
    /\ cnt = 0
    /\ gbClosed = FALSE
    /\ gbRes = [ok |-> FALSE, err |-> nil]

\* OperationElemKind() of the content elements of the model's operations.
ElemKinds == {"endorsement", "transaction"}

\* A CounterVec nothing has been counted in.
NoCounts == [k \in ElemKinds |-> 0]

\* No mempool listener has been started, and Shutdown is not under call.
ListenerIdle ==
    /\ pools = 0
    /\ wg = 0
    /\ sem = FALSE
    /\ callerDone = FALSE
    /\ sdPc = "idle"
    /\ sdRes = nil
    /\ lpc = "idle"
    /\ outcomes = <<>>
    /\ counter = NoCounts
    /\ delivered = <<>>
    /\ lClosed = FALSE
    /\ now = 0
    /\ times = <<>>

\* Calls of Collect and of the constructors that run side by side.
MaxTasks == 2

\* The addresses of the Service and of the RPCClient made by main, and of
\* the local variables srv and client of each call.
SharedService == <<0, "srv">>
SharedClient  == <<0, "client">>
Addrs == (0..MaxTasks) \X {"srv", "client"}

\* An address nothing has been stored at.
Free == [free |-> TRUE]

\* No Service has been made and no collector call is under way.
SharedIdle ==
    /\ heap = [a \in Addrs |-> Free]
    /\ tasks = [t \in 1..MaxTasks |-> [kind |-> "none", pc |-> "idle"]]

\* Do has been called: nothing has happened yet.
DoCalled ==
    /\ SharedIdle
    /\ closed = FALSE
    /\ dest = [Block |-> "init"]
    /\ ctxDone = FALSE
    /\ ctxErr = nil
    /\ pc = "start"
    /\ resp = [StatusCode |-> 0, ContentType |-> <<>>]
    /\ body = <<>>
    /\ tail = ""
    /\ ended = "open"
    /\ pos = 0
    /\ chunkVal = ZeroElem
    /\ decErr = nil
    /\ ch = <<>>
    /\ accepting = FALSE
    /\ sent = <<>>
    /\ sentAfterDone = FALSE
    /\ err = nil
    /\ bodyClosed = 0
    /\ decodeCalls = 0

Init ==
    /\ DecodersIdle
    /\ HealthIdle
    /\ BootstrappedIdle
    /\ ListenerIdle
    /\ pkg \in Pkgs
    /\ v \in {"nil", "value", "chan"}
    /\ chanCap \in 0..MaxCap
    /\ (v # "chan" => chanCap = 0)
    /\ DoCalled

----------------------------------------------------------------------------
(* The environment *)

\* The node writes one more value to the response body.
ServerWrite(d) ==
    /\ UNCHANGED auxVars
    /\ pc # "start"
    /\ ended = "open"
    /\ \/ d \in StreamDocs /\ Len(body) < MaxBody /\ \A i \in 1..Len(body) : body[i] \in Blocks
       \/ d \in ErrorDocs /\ body = <<>>
    /\ body' = Append(body, d)
    /\ UNCHANGED <<pkg, v, chanCap, dest, ctxDone, ctxErr, pc, resp, tail, ended,
                   pos, chunkVal, decErr, ch, accepting, sent, sentAfterDone,
                   err, bodyClosed, decodeCalls>>

\* The body ends: cleanly, without the terminal chunk, or by a broken
\* connection; possibly after some text that is not a complete value.
ServerEnd(tl, e) ==
    /\ UNCHANGED auxVars
    /\ pc # "start"
    /\ ended = "open"
    /\ tail' = tl
    /\ ended' = e
    /\ UNCHANGED <<pkg, v, chanCap, dest, ctxDone, ctxErr, pc, resp, body,
                   pos, chunkVal, decErr, ch, accepting, sent, sentAfterDone,
                   err, bodyClosed, decodeCalls>>

\* The owner of the request context cancels it, or its deadline passes.
\* A Do that is parked in reflect.Select is woken by the closed Done
\* channel: its select has chosen case 1.
Cancel(e) ==
    /\ UNCHANGED auxVars
    /\ ~ctxDone
    /\ pc # "done"
    /\ ctxDone' = TRUE
    /\ ctxErr' = e
    /\ pc' = IF pc = "blocked" THEN "cancelled" ELSE pc
    /\ UNCHANGED <<pkg, v, chanCap, dest, resp, body, tail, ended,
                   pos, chunkVal, decErr, ch, accepting, sent, sentAfterDone,
                   err, bodyClosed, decodeCalls>>

\* The consumer takes the oldest element out of a buffered sink.  If Do is
\* parked in reflect.Select on the full buffer, its element moves into the
\* buffer and its select has chosen case 0.
Recv ==
    /\ UNCHANGED auxVars
    /\ ch # <<>>
    /\ IF pc = "blocked"
       THEN /\ ch' = Append(Tail(ch), chunkVal)
            /\ sent' = Append(sent, chunkVal)
            /\ pc' = "decode"
       ELSE /\ ch' = Tail(ch)
            /\ UNCHANGED <<sent, pc>>
    /\ UNCHANGED <<pkg, v, chanCap, dest, ctxDone, ctxErr, resp, body, tail,
                   ended, pos, chunkVal, decErr, accepting, sentAfterDone,
                   err, bodyClosed, decodeCalls>>

\* The consumer of an unbuffered sink starts to receive.  If Do is parked
\* in reflect.Select, the consumer takes its element at once and Do's
\* select has chosen case 0; otherwise the consumer waits.
RecvWait ==
    /\ UNCHANGED auxVars
    /\ v = "chan"
    /\ chanCap = 0
    /\ ~accepting
    /\ pc # "done"
    /\ IF pc = "blocked"
       THEN /\ sent' = Append(sent, chunkVal)
            /\ pc' = "decode"
            /\ UNCHANGED accepting
       ELSE /\ accepting' = TRUE
            /\ UNCHANGED <<sent, pc>>
    /\ UNCHANGED <<pkg, v, chanCap, dest, ctxDone, ctxErr, resp, body, tail,
                   ended, pos, chunkVal, decErr, ch, sentAfterDone,
                   err, bodyClosed, decodeCalls>>

\* A CallerClose that does not wait for Do to return.
CallerCloseWithoutWaiting ==
    /\ v = "chan"
    /\ ~closed
    /\ closed' = TRUE
    /\ UNCHANGED <<doVars, decVars, healthVars, gbVars, listenerVars, shutdownVars, sharedVars>>

\* The caller closes the sink channel once Do has returned, as the tests
\* and the callers in the collectors do, and goes on to drain it.
CallerClose ==
    /\ v = "chan"
    /\ pc = "done"
    /\ ~closed
    /\ closed' = TRUE
    /\ UNCHANGED <<doVars, decVars, healthVars, gbVars, listenerVars, shutdownVars, sharedVars>>

----------------------------------------------------------------------------
(* RPCClient.Do *)

\* resp.Body.Close()
BodyClose == nil

\* A Return that closes the body on the success path only.
ReturnClosesOnSuccessOnly(e) ==
    /\ bodyClosed' = IF e = nil THEN bodyClosed + 1 ELSE bodyClosed
    /\ err' = IF e = nil THEN BodyClose ELSE e
    /\ pc' = "done"

\* The deferred function of Do: close the body, and report the error of
\* Close when Do has no error of its own.
Return(e) ==
    /\ bodyClosed' = bodyClosed + 1
    /\ err' = IF e = nil THEN BodyClose ELSE e
    /\ pc' = "done"

statusClass(code) == code \div 100

\* A Dispatch without the StatusNoContent test.
DispatchWithoutNoContent(code, dst) ==
    CASE statusClass(code) = 2 /\ dst = "nil"     -> "return"
      [] statusClass(code) = 2 /\ dst = "chan"    -> "decode"
      [] statusClass(code) = 2                     -> "single"
      [] OTHER                                     -> "readall"

\* Where Do goes once the response headers are there.
Dispatch(code, dst) ==
    CASE code = StatusNoContent                    -> "return"
      [] statusClass(code) = 2 /\ dst = "nil"     -> "return"
      [] statusClass(code) = 2 /\ dst = "chan"    -> "decode"
      [] statusClass(code) = 2                     -> "single"
      [] OTHER                                     -> "readall"

\* client.Do(req) failed: there is no response and no body to close.
DoRoundTripFails ==
    /\ UNCHANGED auxVars
    /\ pc = "start"
    /\ pc' = "done"
    /\ err' = [Error("url.Error") EXCEPT !.msg = ctxErr.type]
    /\ UNCHANGED <<pkg, v, chanCap, dest, ctxDone, ctxErr, resp, body, tail, ended,
                   pos, chunkVal, decErr, ch, accepting, sent, sentAfterDone,
                   bodyClosed, decodeCalls>>

\* client.Do(req) returned the response: status 204 and a nil destination
\* return at once, the rest goes on to read the body.  (The Content-Type
\* header is drawn where Do looks at it, in DoHandleErrors.)
DoRoundTrip(code) ==
    /\ UNCHANGED auxVars
    /\ pc = "start"
    /\ resp' = [resp EXCEPT !.StatusCode = code]
    /\ IF Dispatch(code, v) = "return"
       THEN Return(nil)
       ELSE /\ pc' = Dispatch(code, v)
            /\ UNCHANGED <<err, bodyClosed>>
    /\ UNCHANGED <<pkg, v, chanCap, dest, ctxDone, ctxErr, body, tail, ended,
                   pos, chunkVal, decErr, ch, accepting, sent, sentAfterDone,
                   decodeCalls>>

----------------------------------------------------------------------------
(* RPCClient.handleNormalResponse *)

\* A Decode that drops a value of the input when another one follows it.
DecodeSkipsValue(p) ==
    {[err |-> nil, doc |-> body[p + 2], pos |-> p + 2] : x \in {y \in {p} : y + 1 < Len(body)}}
    \cup {[err |-> nil, doc |-> body[p + 1], pos |-> p + 1] :
                x \in {y \in {p} : y + 1 = Len(body)}}
    \cup {[err |-> EndOfInput, doc |-> Null, pos |-> p] :
                x \in {y \in {p} : y = Len(body) /\ ended # "open"}}
    \cup {[err |-> ctxErr, doc |-> Null, pos |-> p] : x \in {y \in {p} : ctxDone}}

\* A Decode whose read of the body is not cut by cancellation.
DecodeIgnoresCancel(p) ==
    {[err |-> nil, doc |-> body[p + 1], pos |-> p + 1] : x \in {y \in {p} : y < Len(body)}}
    \cup {[err |-> EndOfInput, doc |-> Null, pos |-> p] :
                x \in {y \in {p} : y = Len(body) /\ ended # "open"}}

\* The outcomes dec.Decode can have with p values consumed: the next value
\* of the input (err is nil and doc is the text to unmarshal), the end of
\* the input once the body has ended, or the context's error if the read
\* was cut by cancellation.
Decode(p) ==
    {[err |-> nil, doc |-> body[p + 1], pos |-> p + 1] : x \in {y \in {p} : y < Len(body)}}
    \cup {[err |-> EndOfInput, doc |-> Null, pos |-> p] :
                x \in {y \in {p} : y = Len(body) /\ ended # "open"}}
    \cup {[err |-> ctxErr, doc |-> Null, pos |-> p] : x \in {y \in {p} : ctxDone}}

\* An EndsStream that knows io.EOF only.
EndsStreamOnlyEOF(e) == e = EOF

\* The errors of Decode that end a stream without an error.
EndsStream(e) ==
    IF pkg = "go-tezos"
    THEN e = EOF \/ e = ErrUnexpectedEOF
    ELSE e = EOF

\* The streaming loop up to reflect.Select: decode the next element.
StreamDecode ==
    /\ UNCHANGED auxVars
    /\ pc = "decode"
    /\ \E r \in Decode(pos) :
        LET e == IF r.err = nil THEN UnmarshalElem(r.doc).err ELSE r.err IN
        /\ decodeCalls' = decodeCalls + 1
        /\ decErr' = e
        /\ pos' = r.pos
        /\ IF e = nil
           THEN /\ chunkVal' = UnmarshalElem(r.doc).val
                /\ pc' = "select"
                /\ UNCHANGED <<err, bodyClosed>>
           ELSE /\ Return(IF EndsStream(e) THEN nil ELSE e)
                /\ UNCHANGED chunkVal
    /\ UNCHANGED <<pkg, v, chanCap, dest, ctxDone, ctxErr, resp, body, tail, ended,
                   ch, accepting, sent, sentAfterDone>>

\* The send case of the select can proceed.
SendReady == IF chanCap = 0 THEN accepting ELSE Len(ch) < chanCap

\* The cases reflect.Select may choose: 0 sends, 1 is ctx.Done().
Select == {c \in {0} : SendReady} \cup {c \in {1} : ctxDone}

\* reflect.Select: the element goes to the sink, or cancellation wins; with
\* no case ready Do parks until the consumer or the context wakes it.
StreamSelect ==
    /\ UNCHANGED auxVars
    /\ pc = "select"
    /\ IF Select = {}
       THEN /\ pc' = "blocked"
            /\ UNCHANGED <<ch, accepting, sent, sentAfterDone, err, bodyClosed>>
       ELSE \E chosen \in Select :
            IF chosen = 1
            THEN /\ Return(ctxErr)
                 /\ UNCHANGED <<ch, accepting, sent, sentAfterDone>>
            ELSE /\ ch' = IF chanCap = 0 THEN ch ELSE Append(ch, chunkVal)
                 /\ accepting' = FALSE
                 /\ sent' = Append(sent, chunkVal)
                 /\ sentAfterDone' = (sentAfterDone \/ ctxDone)
                 /\ pc' = "decode"
                 /\ UNCHANGED <<err, bodyClosed>>
    /\ UNCHANGED <<pkg, v, chanCap, dest, ctxDone, ctxErr, resp, body, tail, ended,
                   pos, chunkVal, decErr, decodeCalls>>

\* A StreamCancelled that ends the stream without an error.
StreamCancelledReturnsNil ==
    /\ UNCHANGED auxVars
    /\ pc = "cancelled"
    /\ Return(nil)
    /\ UNCHANGED <<pkg, v, chanCap, dest, ctxDone, ctxErr, resp, body, tail, ended,
                   pos, chunkVal, decErr, ch, accepting, sent, sentAfterDone,
                   decodeCalls>>

\* Do was woken out of reflect.Select by ctx.Done(): chosen == 1.
StreamCancelled ==
    /\ UNCHANGED auxVars
    /\ pc = "cancelled"
    /\ Return(ctxErr)
    /\ UNCHANGED <<pkg, v, chanCap, dest, ctxDone, ctxErr, resp, body, tail, ended,
                   pos, chunkVal, decErr, ch, accepting, sent, sentAfterDone,
                   decodeCalls>>

\* The single-object branch: one Decode into the destination.
SingleDecode ==
    /\ UNCHANGED auxVars
    /\ pc = "single"
    /\ \E r \in Decode(pos) :
        /\ decodeCalls' = decodeCalls + 1
        /\ decErr' = IF r.err = nil THEN Unmarshal(r.doc, dest).err ELSE r.err
        /\ pos' = r.pos
        /\ dest' = IF r.err = nil THEN Unmarshal(r.doc, dest).val ELSE dest
        /\ Return(decErr')
    /\ UNCHANGED <<pkg, v, chanCap, ctxDone, ctxErr, resp, body, tail, ended,
                   chunkVal, ch, accepting, sent, sentAfterDone>>

----------------------------------------------------------------------------
(* Error responses *)

httpError(r, raw) ==
    [Error("httpError") EXCEPT !.statusCode = r.StatusCode, !.body = raw]

plainError(httpErr, msg) == [httpErr EXCEPT !.type = "plainError", !.msg = msg]

rpcError(httpErr, errs) == [httpErr EXCEPT !.type = "rpcError", !.errors = errs]

rpcErrors(httpErr, errs) == [httpErr EXCEPT !.type = "rpcErrors", !.errors = errs]

\* The syntax check of json.Unmarshal: the input must be one JSON value.
checkValid(raw) ==
    IF raw.tail = "" /\ Len(raw.docs) = 1 THEN nil ELSE SyntaxError

IsString(fields, name) ==
    name \in DOMAIN fields /\ fields[name].t = "string"

IsErrorObject(doc) ==
    doc.t = "object" /\ IsString(doc.fields, "id") /\ IsString(doc.fields, "kind")

GenericError(doc) == [ID |-> doc.fields.id.s, Kind |-> doc.fields.kind.s]

\* json.Unmarshal(body, &errs) with errs of type Errors: a single error
\* object or an array of error objects.
ErrorsUnmarshalJSON(raw) ==
    LET doc == raw.docs[1] IN
    CASE checkValid(raw) # nil -> [err |-> SyntaxError, errs |-> <<>>]
      [] IsErrorObject(doc)   -> [err |-> nil, errs |-> <<GenericError(doc)>>]
      [] doc.t = "array" /\ \A i \in 1..Len(doc.elems) : IsErrorObject(doc.elems[i])
                              -> [err |-> nil,
                                  errs |-> [i \in 1..Len(doc.elems) |-> GenericError(doc.elems[i])]]
      [] OTHER                -> [err |-> TypeError, errs |-> <<>>]

\* An unknownBodyFormat that looks at the status class only.
unknownBodyFormatByStatusOnly(r) == statusClass(r.StatusCode) # 5

\* Errors with unknown body format: Do returns them without parsing.
unknownBodyFormat(r) ==
    statusClass(r.StatusCode) # 5 \/ ~Contains(r.ContentType, mediaType)

decodingMsg(e) == "tezos: error decoding RPC error: " \o e.type

\* A ClassifyError without the test for an empty list of errors.
ClassifyErrorWithoutEmptyTest(r, raw) ==
    LET httpErr == httpError(r, raw)
        parsed  == ErrorsUnmarshalJSON(raw)
    IN  IF unknownBodyFormat(r)
        THEN httpErr
        ELSE IF parsed.err # nil
        THEN plainError(httpErr, decodingMsg(parsed.err))
        ELSE rpcError(httpErr, parsed.errs)

\* A ClassifyError that keeps the first error record only.
ClassifyErrorKeepsFirst(r, raw) ==
    LET httpErr == httpError(r, raw)
        parsed  == ErrorsUnmarshalJSON(raw)
    IN  IF unknownBodyFormat(r)
        THEN httpErr
        ELSE IF parsed.err # nil
        THEN plainError(httpErr, decodingMsg(parsed.err))
        ELSE IF Len(parsed.errs) = 0
        THEN plainError(httpErr, "tezos: empty error response")
        ELSE rpcError(httpErr, <<parsed.errs[1]>>)

\* go-tezos/client.go: the classification of a non-2xx response whose body
\* has been read.
ClassifyError(r, raw) ==
    LET httpErr == httpError(r, raw)
        parsed  == ErrorsUnmarshalJSON(raw)
    IN  IF unknownBodyFormat(r)
        THEN httpErr
        ELSE IF parsed.err # nil
        THEN plainError(httpErr, decodingMsg(parsed.err))
        ELSE IF Len(parsed.errs) = 0
        THEN plainError(httpErr, "tezos: empty error response")
        ELSE rpcError(httpErr, parsed.errs)

\* vendor: the objects of the parsed body, one map per error.
vendorMaps(doc) ==
    CASE doc.t = "array"  -> SelectSeq(doc.elems, LAMBDA e : e.t = "object")
      [] doc.t = "object" -> <<doc>>
      [] OTHER            -> <<>>

vendorRPCError(m) == [ID |-> m.fields.id.s, Kind |-> m.fields.kind.s, raw |-> m.fields]

\* vendor/github.com/ecadlabs/go-tezos: the same classification, with the
\* parsing of the error body written out in Do.
vendorClassifyError(r, raw) ==
    LET httpErr == httpError(r, raw)
        maps    == vendorMaps(raw.docs[1])
    IN  IF unknownBodyFormat(r)
        THEN httpErr
        ELSE IF checkValid(raw) # nil
        THEN plainError(httpErr, decodingMsg(SyntaxError))
        ELSE IF raw.docs[1].t \notin {"array", "object"}
        THEN plainError(httpErr, "tezos: error decoding RPC error")
        ELSE IF Len(maps) = 0
        THEN plainError(httpErr, "tezos: empty error response")
        ELSE IF \E i \in 1..Len(maps) : ~IsErrorObject(maps[i])
        THEN plainError(httpErr, "tezos: error decoding RPC error")
        ELSE IF Len(maps) = 1
        THEN rpcError(httpErr, <<vendorRPCError(maps[1])>>)
        ELSE rpcErrors(httpErr, [i \in 1..Len(maps) |-> vendorRPCError(maps[i])])

\* ioutil.ReadAll: the whole body once it has ended cleanly, the read error
\* otherwise.
ReadAll ==
    {[err |-> nil, raw |-> Raw] : x \in {y \in {ended} : y = "eof"}}
    \cup {[err |-> ErrUnexpectedEOF, raw |-> Raw] : x \in {y \in {ended} : y = "unexpectedEOF"}}
    \cup {[err |-> TransportError, raw |-> Raw] : x \in {y \in {ended} : y = "reset"}}
    \cup {[err |-> ctxErr, raw |-> Raw] : x \in {y \in {ended} : ctxDone}}

\* The error branch of Do: read the body and classify the response.  The
\* JSON parser runs unless the response is returned as a plain HTTP error.
DoHandleErrors(ctype) ==
    /\ UNCHANGED auxVars
    /\ pc = "readall"
    /\ resp' = [resp EXCEPT !.ContentType = ctype]
    /\ \E r \in ReadAll :
        LET e == IF pkg = "go-tezos"
                 THEN ClassifyError(resp', r.raw)
                 ELSE vendorClassifyError(resp', r.raw)
        IN  /\ decErr' = r.err
            /\ IF r.err # nil
               THEN /\ Return(r.err)
                    /\ UNCHANGED decodeCalls
               ELSE /\ Return(e)
                    /\ decodeCalls' = IF e.type = "httpError"
                                      THEN decodeCalls
                                      ELSE decodeCalls + 1
    /\ UNCHANGED <<pkg, v, chanCap, dest, ctxDone, ctxErr, body, tail, ended,
                   pos, chunkVal, ch, accepting, sent, sentAfterDone>>

----------------------------------------------------------------------------

Next ==
    \/ \E d \in StreamDocs \cup ErrorDocs : ServerWrite(d)
    \/ \E be \in BodyEnds : ServerEnd(be[1], be[2])
    \/ \E e \in CtxErrors : Cancel(e)
    \/ Recv
    \/ RecvWait
    \/ DoRoundTripFails
    \/ \E code \in StatusCodes : DoRoundTrip(code)
    \/ StreamDecode
    \/ StreamSelect
    \/ StreamCancelled
    \/ SingleDecode
    \/ \E ctype \in ContentTypes : DoHandleErrors(ctype)

Spec == Init /\ [][Next]_vars

\* The steps of Do.
DoNext ==
    \/ DoRoundTripFails
    \/ \E code \in StatusCodes : DoRoundTrip(code)
    \/ StreamDecode
    \/ StreamSelect
    \/ StreamCancelled
    \/ SingleDecode
    \/ \E ctype \in ContentTypes : DoHandleErrors(ctype)

\* The Go scheduler runs a goroutine that can take a step.
FairSpec == Spec /\ WF_vars(DoNext)

----------------------------------------------------------------------------
(* Properties *)

\* Do went into the streaming loop of handleNormalResponse.
Streaming == resp.StatusCode # 0 /\ Dispatch(resp.StatusCode, v) = "decode"

\* Do went into the error branch.
ErrorBranch == resp.StatusCode # 0 /\ Dispatch(resp.StatusCode, v) = "readall"

\* C1: the elements sent to the sink are the first values of the body, in
\* body order, none skipped, duplicated or reordered; and once the decoder
\* has reached the end of the body every value of it has been sent.
StreamDeliversBodyInOrder ==
    /\ Len(sent) <= Len(body)
    /\ \A i \in 1..Len(sent) : sent[i] = UnmarshalElem(body[i]).val
    /\ (pc = "done" /\ Streaming /\ decErr \in {EOF, ErrUnexpectedEOF})
            => Len(sent) = Len(body)

ThreeValuesDelivered ==
    /\ pc = "done" /\ Streaming /\ err = nil /\ ~ctxDone
    /\ Len(sent) >= 3 /\ sent[1] # sent[2]

\* C2: once the context's Done channel is closed, Do sends no further
\* element to the sink.
CancelStopsDelivery == ~sentAfterDone

\* C3: a Do that is parked in reflect.Select when the context is cancelled
\* returns, and what it returns is ctx.Err().
CancelledSelectReturnsCtxErr ==
    /\ (pc = "cancelled") ~> (pc = "done" /\ err = ctxErr)
    /\ [][pc = "cancelled" =>
            \/ pc' = "done" /\ err' = ctxErr
            \/ UNCHANGED <<pc, err>>]_vars

ReturnedCtxErrFromSelect ==
    /\ pc = "done" /\ Streaming /\ ctxDone /\ err = ctxErr
    /\ decErr = nil /\ Len(sent) < pos /\ ~SendReady

\* C4: the response body is closed exactly once when Do has returned after
\* it got a response, and not before.
BodyClosedExactlyOnce ==
    bodyClosed = IF pc = "done" /\ resp.StatusCode # 0 THEN 1 ELSE 0

ClosedAfterCancelMidStream ==
    /\ pc = "done" /\ Streaming /\ err = ctxErr /\ ctxDone
    /\ sent # <<>> /\ bodyClosed = 1

\* C5: go-tezos/client.go: a stream whose body ends after complete values,
\* cleanly or with io.ErrUnexpectedEOF for the missing terminal chunk, ends
\* without an error.
EndOfBodyEndsStream ==
    (pc = "done" /\ pkg = "go-tezos" /\ Streaming /\ tail = ""
        /\ decErr \in {EOF, ErrUnexpectedEOF}) => err = nil

UnexpectedEOFEndsStream ==
    /\ pc = "done" /\ pkg = "go-tezos" /\ Streaming /\ tail = ""
    /\ ended = "unexpectedEOF" /\ decErr = ErrUnexpectedEOF
    /\ sent # <<>> /\ err = nil

\* C6: a stream whose body is cut inside a JSON value makes Do return the
\* decode error.
TruncatedValueIsDecodeError ==
    (pc = "done" /\ Streaming /\ tail = "partial" /\ decErr = ErrUnexpectedEOF)
        => err = ErrUnexpectedEOF

\* C7: with status 204 Do returns nil, the decoder has not run, a value
\* destination holds what it held and nothing went to a sink.
NoContentTouchesNothing ==
    (pc = "done" /\ resp.StatusCode = StatusNoContent) =>
        /\ err = nil
        /\ decodeCalls = 0
        /\ dest = [Block |-> "init"]
        /\ sent = <<>>
        /\ ch = <<>>

NoContentWithBody ==
    /\ pc = "done" /\ resp.StatusCode = StatusNoContent
    /\ body # <<>> /\ ended = "eof"

\* C8: a non-2xx response that is not 5xx, or whose Content-Type does not
\* contain application/json, comes back as the plain HTTP error with the
\* status code and the body as read, and the JSON parser has not run.
PlainHTTPErrorIsNotParsed ==
    (/\ pc = "done" /\ ErrorBranch /\ decErr = nil
     /\ \/ resp.StatusCode \div 100 # 5
        \/ ~Contains(resp.ContentType, <<"application/json">>))
    => /\ err = [type |-> "httpError", statusCode |-> resp.StatusCode,
                 body |-> Raw, msg |-> "", errors |-> <<>>]
       /\ decodeCalls = 0

PlainErrorWithJSONBody ==
    /\ pc = "done" /\ ErrorBranch /\ decErr = nil
    /\ resp.StatusCode \div 100 = 5
    /\ resp.ContentType = <<"text/plain">>
    /\ body = <<ErrA>> /\ tail = ""
    /\ err.type = "httpError"

\* The error records of a body, read off the text: the object itself, or
\* the elements of the array.
BodyRecords(raw) ==
    LET doc == raw.docs[1] IN
    CASE doc.t = "object" -> <<doc>>
      [] doc.t = "array"  -> doc.elems
      [] OTHER            -> <<>>

\* The body is one error object or one array of error objects.
BodyIsErrors(raw) ==
    /\ raw.tail = ""
    /\ Len(raw.docs) = 1
    /\ raw.docs[1].t \in {"object", "array"}
    /\ \A i \in 1..Len(BodyRecords(raw)) : IsErrorObject(BodyRecords(raw)[i])

DecodeFailureMsgs == {decodingMsg(SyntaxError), decodingMsg(TypeError)}

\* C9: go-tezos/client.go: a 5xx response with a JSON content type comes
\* back as exactly one of three errors that differ in type or message and
\* carry the status code and the body: the decode failure when the body is
\* not an error object or an array of them, the empty error when it holds
\* no record, the RPC error otherwise.
ServerErrorIsOneOfThree ==
    (/\ pc = "done" /\ pkg = "go-tezos" /\ ErrorBranch /\ decErr = nil
     /\ resp.StatusCode \div 100 = 5
     /\ Contains(resp.ContentType, <<"application/json">>))
    => /\ err.statusCode = resp.StatusCode
       /\ err.body = Raw
       /\ "tezos: empty error response" \notin DecodeFailureMsgs
       /\ IF ~BodyIsErrors(Raw)
          THEN err.type = "plainError" /\ err.msg \in DecodeFailureMsgs
          ELSE IF Len(BodyRecords(Raw)) = 0
          THEN err.type = "plainError" /\ err.msg = "tezos: empty error response"
          ELSE err.type = "rpcError"

EmptyErrorReturned ==
    /\ pc = "done" /\ pkg = "go-tezos" /\ ErrorBranch /\ decErr = nil
    /\ resp.StatusCode = 500
    /\ body = <<Array(<<>>)>>
    /\ err.type = "plainError" /\ err.msg = "tezos: empty error response"

\* C10: the RPC error Do returns holds every error record of the body, in
\* body order, for an object body and for an array body.
RPCErrorHoldsAllRecords ==
    (pc = "done" /\ err.type \in {"rpcError", "rpcErrors"}) =>
        LET recs == SelectSeq(BodyRecords(Raw), LAMBDA d : d.t = "object") IN
        /\ Len(recs) >= 1
        /\ Len(err.errors) = Len(recs)
        /\ \A i \in 1..Len(recs) :
                /\ err.errors[i].ID = recs[i].fields.id.s
                /\ err.errors[i].Kind = recs[i].fields.kind.s

TwoRecordsReturned ==
    /\ pc = "done" /\ pkg = "go-tezos" /\ err.type = "rpcError"
    /\ Len(err.errors) = 2 /\ err.errors[1].ID # err.errors[2].ID

----------------------------------------------------------------------------
(* JSON unmarshalling into structs (encoding/json)                         *)

MaxElems == 2       \* elements of a JSON array handed to an unmarshaller

\* Texts that strconv parses as an integer.
IntTexts == {"10", "-5"}

\* A JSON value can be stored into a Go field of the given type.  null is
\* stored into any field, and changes nothing.
Fits(val, type) ==
    \/ val.t = "null"
    \/ type = "string" /\ val.t = "string"
    \/ type = "int"    /\ val.t = "number"
    \/ type = "intstr" /\ val.t = "string" /\ val.s \in IntTexts
    \/ type = "BigInt" /\ val.t = "string" /\ val.s \in IntTexts
    \/ type = "struct" /\ val.t = "object"
    \/ type = "slice"  /\ val.t = "array"
    \/ type = "bool"   /\ val.t = "bool"

\* The zero value of a Go field.
Zero(type) ==
    CASE type = "string" -> ""
      [] type = "int"    -> "0"
      [] type = "intstr" -> "0"
      [] OTHER           -> "nil"

\* What a field holds after val has been stored into it.
Stored(val, type) ==
    IF val.t \in {"string", "number"} THEN val.s ELSE "set"

\* json.Unmarshal of one value into a struct that holds `old` and whose
\* fields, by JSON key, are `shape`: keys the struct does not have are
\* dropped, absent keys and null leave what the field held, a value that
\* does not fit its field is skipped and reported as an UnmarshalTypeError,
\* and so is a value that is not an object.
DecodeInto(doc, shape, old) ==
    CASE doc.t = "null"   -> [err |-> nil, val |-> old]
      [] doc.t = "object" ->
            LET given == DOMAIN shape \cap DOMAIN doc.fields
                bad   == {k \in given : ~Fits(doc.fields[k], shape[k])}
            IN  [err |-> IF bad = {} THEN nil ELSE TypeError,
                 val |-> [k \in DOMAIN old |->
                            IF k \in given \ bad /\ doc.fields[k].t # "null"
                            THEN Stored(doc.fields[k], shape[k])
                            ELSE old[k]]]
      [] OTHER -> [err |-> TypeError, val |-> old]

\* The zero value of a struct.
ZeroStruct(shape) == [k \in DOMAIN shape |-> Zero(shape[k])]

\* json.Unmarshal into a new struct.
DecodeStruct(doc, shape) == DecodeInto(doc, shape, ZeroStruct(shape))

\* var raw []json.RawMessage; json.Unmarshal(data, &raw)
UnmarshalRaw(doc) ==
    CASE doc.t = "array" -> [err |-> nil, raw |-> doc.elems]
      [] doc.t = "null"  -> [err |-> nil, raw |-> <<>>]
      [] OTHER           -> [err |-> TypeError, raw |-> <<>>]

\* Struct embedding: the fields of the embedded struct are promoted.
Embed(generic, own) ==
    [k \in DOMAIN generic \cup DOMAIN own |->
        IF k \in DOMAIN own THEN own[k] ELSE generic[k]]

\* A decoded element: the Go type it has and what its fields hold.
Elem(type, val) == [type |-> type, val |-> val]

\* A nil interface value, as make() leaves the entries of a new slice.
NilIface == [type |-> "nil", val |-> <<>>]

----------------------------------------------------------------------------
(* go-tezos/operations.go: operation elements                              *)

GenericOperationElem == [kind |-> "string"]

\* The struct types of the operation elements, by the JSON keys of their
\* own fields.
OperationElemFields(type) ==
    CASE type = "EndorsementOperationElem" ->
            [level |-> "int", metadata |-> "struct"]
      [] type = "TransactionOperationElem" ->
            [source |-> "string", fee |-> "BigInt", counter |-> "BigInt",
             gas_limit |-> "BigInt", storage_limit |-> "BigInt",
             amount |-> "BigInt", destination |-> "string",
             parameters |-> "struct", metadata |-> "struct"]
      [] type = "BallotOperationElem" ->
            [source |-> "string", period |-> "int", proposal |-> "string",
             ballot |-> "string", metadata |-> "struct"]
      [] type = "ProposalOperationElem" ->
            [source |-> "string", period |-> "int", proposals |-> "slice",
             metadata |-> "struct"]
      [] type = "SeedNonceRevelationOperationElem" ->
            [level |-> "int", nonce |-> "string", metadata |-> "struct"]
      [] type = "DoubleEndorsementEvidenceOperationElem" ->
            [op1 |-> "struct", op2 |-> "struct", metadata |-> "struct"]
      [] type = "DoubleBakingEvidenceOperationElem" ->
            [bh1 |-> "struct", bh2 |-> "struct", metadata |-> "struct"]
      [] type = "ActivateAccountOperationElem" ->
            [pkh |-> "string", secret |-> "string", metadata |-> "struct"]
      [] type = "RevealOperationElem" ->
            [source |-> "string", fee |-> "BigInt", counter |-> "BigInt",
             gas_limit |-> "BigInt", storage_limit |-> "BigInt",
             public_key |-> "string", metadata |-> "struct"]
      [] type \in {"OriginationOperationElem", "DelegationOperationElem"} ->
            [source |-> "string", fee |-> "BigInt", counter |-> "BigInt",
             gas_limit |-> "BigInt", storage_limit |-> "BigInt",
             managerPubkey |-> "string", balance |-> "BigInt",
             spendable |-> "bool", delegatable |-> "bool",
             delegate |-> "string", script |-> "struct", metadata |-> "struct"]

\* Every element type embeds GenericOperationElem.
OperationElemShape(type) == Embed(GenericOperationElem, OperationElemFields(type))

\* An OperationElemType that takes a ballot for a proposals operation.
OperationElemTypeBallotAsProposals(kind) ==
    CASE kind = "endorsement"                 -> "EndorsementOperationElem"
      [] kind = "transaction"                 -> "TransactionOperationElem"
      [] kind = "ballot"                      -> "ProposalOperationElem"
      [] kind = "proposals"                   -> "ProposalOperationElem"
      [] kind = "seed_nonce_revelation"       -> "SeedNonceRevelationOperationElem"
      [] kind = "double_endorsement_evidence" -> "DoubleEndorsementEvidenceOperationElem"
      [] kind = "double_baking_evidence"      -> "DoubleBakingEvidenceOperationElem"
      [] kind = "activate_account"            -> "ActivateAccountOperationElem"
      [] kind = "reveal"                      -> "RevealOperationElem"
      [] kind = "origination"                 -> "OriginationOperationElem"
      [] kind = "delegation"                  -> "DelegationOperationElem"
      [] OTHER                                -> "GenericOperationElem"

\* switch tmp.Kind: the type allocated for an element of that kind.
OperationElemType(kind) ==
    CASE kind = "endorsement"                 -> "EndorsementOperationElem"
      [] kind = "transaction"                 -> "TransactionOperationElem"
      [] kind = "ballot"                      -> "BallotOperationElem"
      [] kind = "proposals"                   -> "ProposalOperationElem"
      [] kind = "seed_nonce_revelation"       -> "SeedNonceRevelationOperationElem"
      [] kind = "double_endorsement_evidence" -> "DoubleEndorsementEvidenceOperationElem"
      [] kind = "double_baking_evidence"      -> "DoubleBakingEvidenceOperationElem"
      [] kind = "activate_account"            -> "ActivateAccountOperationElem"
      [] kind = "reveal"                      -> "RevealOperationElem"
      [] kind = "origination"                 -> "OriginationOperationElem"
      [] kind = "delegation"                  -> "DelegationOperationElem"
      [] OTHER                                -> "GenericOperationElem"

\* An opLoop whose default case is an error, as the one of the test chain
\* status is.
RECURSIVE opLoopUnknownKindFails(_, _, _)
opLoopUnknownKindFails(raw, i, elems) ==
    IF i > Len(raw)
    THEN [err |-> nil, e |-> elems, i |-> i]
    ELSE LET tmp  == DecodeStruct(raw[i], GenericOperationElem)
             type == OperationElemType(tmp.val.kind)
             full == DecodeStruct(raw[i], OperationElemShape(type))
         IN  IF tmp.err # nil
             THEN [err |-> tmp.err, e |-> elems, i |-> i]
             ELSE IF type = "GenericOperationElem"
             THEN [err |-> Error("errorString"), e |-> elems, i |-> i]
             ELSE IF full.err # nil
             THEN [err |-> full.err,
                   e |-> [elems EXCEPT ![i] = Elem(type, full.val)], i |-> i]
             ELSE opLoopUnknownKindFails(raw, i + 1,
                        [elems EXCEPT ![i] = Elem(type, full.val)])

\* The loop over the raw elements, from element i on (the first element is
\* element 1): probe the kind, allocate, decode in full.  The result holds
\* the error, the slice as the loop leaves it and the index it stopped at.
RECURSIVE opLoopOperationElements(_, _, _)
opLoopOperationElements(raw, i, elems) ==
    IF i > Len(raw)
    THEN [err |-> nil, e |-> elems, i |-> i]
    ELSE LET tmp  == DecodeStruct(raw[i], GenericOperationElem)
             type == OperationElemType(tmp.val.kind)
             full == DecodeStruct(raw[i], OperationElemShape(type))
         IN  IF tmp.err # nil
             THEN [err |-> tmp.err, e |-> elems, i |-> i]
             ELSE IF type = "GenericOperationElem"
             THEN opLoopOperationElements(raw, i + 1,
                        [elems EXCEPT ![i] = Elem(type, tmp.val)])
             ELSE IF full.err # nil
             THEN [err |-> full.err,
                   e |-> [elems EXCEPT ![i] = Elem(type, full.val)], i |-> i]
             ELSE opLoopOperationElements(raw, i + 1,
                        [elems EXCEPT ![i] = Elem(type, full.val)])

\* (*OperationElements).UnmarshalJSON, called on a slice that holds `old`.
OperationElementsUnmarshalJSON(doc, old) ==
    LET r == UnmarshalRaw(doc) IN
    IF r.err # nil
    THEN [err |-> r.err, e |-> old, i |-> 0]
    ELSE opLoopOperationElements(r.raw, 1, [k \in 1..Len(r.raw) |-> NilIface])

----------------------------------------------------------------------------
(* go-tezos/operations.go: balance updates                                 *)

GenericBalanceUpdate == [kind |-> "string", change |-> "intstr"]

BalanceUpdateFields(type) ==
    CASE type = "ContractBalanceUpdate" -> [contract |-> "string"]
      [] type = "FreezerBalanceUpdate"  ->
            [category |-> "string", delegate |-> "string", level |-> "int"]

\* Both variants embed GenericBalanceUpdate.
BalanceUpdateShape(type) == Embed(GenericBalanceUpdate, BalanceUpdateFields(type))

\* switch tmp.Kind
BalanceUpdateType(kind) ==
    CASE kind = "contract" -> "ContractBalanceUpdate"
      [] kind = "freezer"  -> "FreezerBalanceUpdate"
      [] OTHER             -> "GenericBalanceUpdate"

RECURSIVE opLoopBalanceUpdates(_, _, _)
opLoopBalanceUpdates(raw, i, elems) ==
    IF i > Len(raw)
    THEN [err |-> nil, e |-> elems, i |-> i]
    ELSE LET tmp  == DecodeStruct(raw[i], GenericBalanceUpdate)
             type == BalanceUpdateType(tmp.val.kind)
             full == DecodeStruct(raw[i], BalanceUpdateShape(type))
         IN  IF tmp.err # nil
             THEN [err |-> tmp.err, e |-> elems, i |-> i]
             ELSE IF type = "GenericBalanceUpdate"
             THEN opLoopBalanceUpdates(raw, i + 1,
                        [elems EXCEPT ![i] = Elem(type, tmp.val)])
             ELSE IF full.err # nil
             THEN [err |-> full.err,
                   e |-> [elems EXCEPT ![i] = Elem(type, full.val)], i |-> i]
             ELSE opLoopBalanceUpdates(raw, i + 1,
                        [elems EXCEPT ![i] = Elem(type, full.val)])

\* (*BalanceUpdates).UnmarshalJSON, called on a slice that holds `old`.
BalanceUpdatesUnmarshalJSON(doc, old) ==
    LET r == UnmarshalRaw(doc) IN
    IF r.err # nil
    THEN [err |-> r.err, e |-> old, i |-> 0]
    ELSE opLoopBalanceUpdates(r.raw, 1, [k \in 1..Len(r.raw) |-> NilIface])

----------------------------------------------------------------------------
(* Block header metadata and its test chain status                         *)

GenericTestChainStatus == [status |-> "string"]

TestChainStatusFields(type) ==
    CASE type = "NotRunningTestChainStatus" -> <<>>
      [] type = "ForkingTestChainStatus"    ->
            [protocol |-> "string", expiration |-> "string"]
      [] type = "RunningTestChainStatus"    ->
            [chain_id |-> "string", genesis |-> "string",
             protocol |-> "string", expiration |-> "string"]

TestChainStatusShape(type) == Embed(GenericTestChainStatus, TestChainStatusFields(type))

\* switch tmp.Status; "" stands for the default case.
TestChainStatusType(status) ==
    CASE status = "not_running" -> "NotRunningTestChainStatus"
      [] status = "forking"     -> "ForkingTestChainStatus"
      [] status = "running"     -> "RunningTestChainStatus"
      [] OTHER                  -> ""

\* The bytes of a json.RawMessage that was never set.
NoBytes == [t |-> "none"]

UnknownStatusError(status) ==
    [Error("errorString") EXCEPT !.msg = "unknown TestChainStatus.Status: " \o status]

\* An unmarshalTestChainStatus whose default case keeps the generic
\* record, as the loops of the operation elements and balance updates do.
unmarshalTestChainStatusWithFallback(doc) ==
    LET tmp  == DecodeStruct(doc, GenericTestChainStatus)
        type == TestChainStatusType(tmp.val.status)
        full == DecodeStruct(doc, TestChainStatusShape(type))
    IN  IF doc.t = "none"
        THEN [err |-> SyntaxError, v |-> NilIface]
        ELSE IF tmp.err # nil
        THEN [err |-> tmp.err, v |-> NilIface]
        ELSE IF type = ""
        THEN [err |-> nil, v |-> Elem("GenericTestChainStatus", tmp.val)]
        ELSE IF full.err # nil
        THEN [err |-> full.err, v |-> NilIface]
        ELSE [err |-> nil, v |-> Elem(type, full.val)]

\* unmarshalTestChainStatus: the value it returns (nil with an error) and
\* the error.
unmarshalTestChainStatus(doc) ==
    LET tmp  == DecodeStruct(doc, GenericTestChainStatus)
        type == TestChainStatusType(tmp.val.status)
        full == DecodeStruct(doc, TestChainStatusShape(type))
    IN  IF doc.t = "none"
        THEN [err |-> SyntaxError, v |-> NilIface]
        ELSE IF tmp.err # nil
        THEN [err |-> tmp.err, v |-> NilIface]
        ELSE IF type = ""
        THEN [err |-> UnknownStatusError(tmp.val.status), v |-> NilIface]
        ELSE IF full.err # nil
        THEN [err |-> full.err, v |-> NilIface]
        ELSE [err |-> nil, v |-> Elem(type, full.val)]

\* The fields of BlockHeaderMetadata, apart from TestChainStatus, which
\* has the tag "-", and BalanceUpdates, which has its own unmarshaller.
BlockHeaderMetadataFields ==
    [protocol |-> "string", next_protocol |-> "string",
     max_operations_ttl |-> "int", max_operation_data_length |-> "int",
     max_block_header_length |-> "int", max_operation_list_length |-> "slice",
     baker |-> "string", level |-> "struct", voting_period_kind |-> "string",
     nonce_hash |-> "string", consumed_gas |-> "BigInt", deactivated |-> "slice"]

\* (*BlockHeaderMetadata).UnmarshalJSON, called on a struct that holds
\* `old`: the plain fields first, then the raw test_chain_status.
BlockHeaderMetadataUnmarshalJSON(doc, old) ==
    LET plain == DecodeInto(doc, BlockHeaderMetadataFields, old.val)
        hasBU == doc.t = "object" /\ "balance_updates" \in DOMAIN doc.fields
        bu    == IF hasBU
                 THEN BalanceUpdatesUnmarshalJSON(doc.fields.balance_updates,
                                                  old.BalanceUpdates)
                 ELSE [err |-> nil, e |-> old.BalanceUpdates, i |-> 0]
        first == [old EXCEPT !.val = plain.val, !.BalanceUpdates = bu.e]
        rawTCS == IF doc.t = "object" /\ "test_chain_status" \in DOMAIN doc.fields
                  THEN doc.fields.test_chain_status
                  ELSE NoBytes
        tcs   == unmarshalTestChainStatus(rawTCS)
    IN  IF doc.t \notin {"object", "null"}
        THEN [err |-> TypeError, e |-> old, i |-> 0]
        ELSE IF bu.err # nil
        THEN [err |-> bu.err, e |-> first, i |-> 0]
        ELSE IF plain.err # nil
        THEN [err |-> plain.err, e |-> first, i |-> 0]
        ELSE IF tcs.err # nil
        THEN [err |-> tcs.err, e |-> first, i |-> 0]
        ELSE [err |-> nil, e |-> [first EXCEPT !.TestChainStatus = tcs.v], i |-> 0]

----------------------------------------------------------------------------
(* go-tezos/utils.go, operations.go: arrays with a leading scalar          *)

\* The plain fields of Operation; Contents has its own unmarshaller.
OperationFields ==
    [protocol |-> "string", chain_id |-> "string", hash |-> "string",
     branch |-> "string", signature |-> "string"]

\* An Operation no decoder has written to.
ZeroOperation == [val |-> ZeroStruct(OperationFields), Contents |-> <<>>]

\* json.Unmarshal(doc, op) for op of type *Operation.
OperationUnmarshal(doc, op) ==
    LET plain == DecodeInto(doc, OperationFields, op.val)
        hasC  == doc.t = "object" /\ "contents" \in DOMAIN doc.fields
        cont  == IF hasC
                 THEN OperationElementsUnmarshalJSON(doc.fields.contents, op.Contents)
                 ELSE [err |-> nil, e |-> op.Contents, i |-> 0]
    IN  [err |-> IF cont.err # nil THEN cont.err ELSE plain.err,
         val |-> [val |-> plain.val, Contents |-> cont.e]]

\* json.Unmarshal(doc, p) for p of type *string pointing at a field of op.
StringUnmarshal(doc, op, field) ==
    CASE doc.t = "null"   -> [err |-> nil, val |-> op]
      [] doc.t = "string" -> [err |-> nil, val |-> [op EXCEPT !.val[field] = doc.s]]
      [] OTHER            -> [err |-> TypeError, val |-> op]

\* The targets handed to unmarshalHeterogeneousJSONArray are pointers into
\* one Operation: to one of its string fields, or to all of it.
TargetField(name) == [to |-> "field", name |-> name]
TargetOperation   == [to |-> "Operation", name |-> ""]

\* json.Unmarshal(raw[i], vv)
UnmarshalTarget(doc, vv, op) ==
    IF vv.to = "field"
    THEN StringUnmarshal(doc, op, vv.name)
    ELSE OperationUnmarshal(doc, op)

TooShortError(want, got) ==
    [Error("errorString") EXCEPT
        !.msg = "JSON array is too short, expected " \o ToString(want)
                    \o ", got " \o ToString(got)]

\* for i, vv := range v
RECURSIVE heterogeneousLoop(_, _, _, _)
heterogeneousLoop(raw, targets, i, op) ==
    IF i > Len(targets)
    THEN [err |-> nil, e |-> op, i |-> i]
    ELSE LET r == UnmarshalTarget(raw[i], targets[i], op) IN
         IF r.err # nil
         THEN [err |-> r.err, e |-> r.val, i |-> i]
         ELSE heterogeneousLoop(raw, targets, i + 1, r.val)

\* An unmarshalHeterogeneousJSONArray that wants exactly as many elements
\* as it has targets.
unmarshalHeterogeneousJSONArrayExactLen(doc, targets, op) ==
    LET r == UnmarshalRaw(doc) IN
    IF r.err # nil
    THEN [err |-> r.err, e |-> op, i |-> 0]
    ELSE IF Len(r.raw) # Len(targets)
    THEN [err |-> TooShortError(Len(targets), Len(r.raw)), e |-> op, i |-> 0]
    ELSE heterogeneousLoop(r.raw, targets, 1, op)

\* unmarshalHeterogeneousJSONArray(data, v...), the targets pointing into op.
unmarshalHeterogeneousJSONArray(doc, targets, op) ==
    LET r == UnmarshalRaw(doc) IN
    IF r.err # nil
    THEN [err |-> r.err, e |-> op, i |-> 0]
    ELSE IF Len(r.raw) < Len(targets)
    THEN [err |-> TooShortError(Len(targets), Len(r.raw)), e |-> op, i |-> 0]
    ELSE heterogeneousLoop(r.raw, targets, 1, op)

\* (*OperationAlt).UnmarshalJSON
OperationAltUnmarshalJSON(doc, o) ==
    unmarshalHeterogeneousJSONArray(doc, <<TargetField("hash"), TargetOperation>>, o)

----------------------------------------------------------------------------
(* Calls of the unmarshallers                                              *)

\* Operation elements: two that fit their kind, one of a registered kind
\* that does not, two of no registered kind, one whose kind is no string,
\* and a value that is no object.
OpEndorsement == Object([kind |-> Str("endorsement"), level |-> Num("5")])
OpBallot      == Object([kind |-> Str("ballot"), source |-> Str("tz1"),
                         ballot |-> Str("yay")])
OpBadLevel    == Object([kind |-> Str("endorsement"), level |-> Str("x")])
OpFuture      == Object([kind |-> Str("future_op"), level |-> Str("x")])
OpNoKind      == Object([level |-> Num("5")])
OpNumKind     == Object([kind |-> Num("5")])

OperationElemDocs ==
    {OpEndorsement, OpBallot, OpBadLevel, OpFuture, OpNoKind, OpNumKind, Num("7")}

\* Balance updates, likewise; the change of an update is a string that
\* holds an integer.
BuContract      == Object([kind |-> Str("contract"), change |-> Str("10"),
                           contract |-> Str("KT1")])
BuFreezer       == Object([kind |-> Str("freezer"), change |-> Str("-5"),
                           category |-> Str("rewards"), level |-> Num("3")])
BuBadLevel      == Object([kind |-> Str("freezer"), change |-> Str("10"),
                           level |-> Str("x")])
BuFuture        == Object([kind |-> Str("burned"), change |-> Str("10")])
BuFutureNoChange  == Object([kind |-> Str("burned")])
BuFutureBadChange == Object([kind |-> Str("burned"), change |-> Str("abc")])
BuFutureNumChange == Object([kind |-> Str("burned"), change |-> Num("10")])

BalanceUpdateDocs ==
    {BuContract, BuFreezer, BuBadLevel, BuFuture, BuFutureNoChange,
     BuFutureBadChange, BuFutureNumChange}

\* Test chain status records.
TcsNotRunning == Object([status |-> Str("not_running")])
TcsForking    == Object([status |-> Str("forking"), protocol |-> Str("P2"),
                         expiration |-> Str("T9")])
TcsRunning    == Object([status |-> Str("running"), chain_id |-> Str("N1"),
                         protocol |-> Str("P2")])
TcsBadForking == Object([status |-> Str("forking"), protocol |-> Num("2")])
TcsFuture     == Object([status |-> Str("pending"), protocol |-> Str("P2")])
TcsNumStatus  == Object([status |-> Num("1")])

TestChainStatusDocs ==
    {TcsNotRunning, TcsForking, TcsRunning, TcsBadForking, TcsFuture, TcsNumStatus}

\* Block header metadata: with each test chain status or without one, and
\* with balance updates or without.
BlockHeaderMetadataDocs ==
    {Object([protocol |-> Str("P1"), test_chain_status |-> t]) :
            t \in TestChainStatusDocs}
    \cup {Object([protocol |-> Str("P1"), test_chain_status |-> t,
                  balance_updates |-> Array(<<b>>)]) :
            t \in {TcsNotRunning, TcsFuture}, b \in {BuContract, BuFuture, BuBadLevel}}
    \cup {Object([protocol |-> Str("P1")]), Object([protocol |-> Num("1"),
                  test_chain_status |-> TcsRunning])}

\* Operations, and the members of an array with a leading scalar.
OpBody     == Object([protocol |-> Str("P1"), branch |-> Str("BL"),
                      contents |-> Array(<<OpEndorsement, OpFuture>>)])
OpBodyHash == Object([protocol |-> Str("P1"), hash |-> Str("oo2")])
OpBodyBad  == Object([protocol |-> Str("P1"),
                      contents |-> Array(<<OpBallot, OpBadLevel>>)])

HeterogeneousDocs == {Str("oo1"), Num("7"), OpBody, OpBodyHash, OpBodyBad}

\* The sequences over S of length at most n.
SeqsUpTo(S, n) == UNION {[1..k -> S] : k \in 0..n}

\* The JSON arrays with at most n elements of S.
Arrays(S, n) == {Array(elems) : elems \in SeqsUpTo(S, n)}

\* What is not an array.
NonArrays == {Num("7"), Null}

\* What the receivers hold before the call.
OldElements   == <<Elem("GenericOperationElem", [kind |-> "old"])>>
OldUpdates    == <<Elem("GenericBalanceUpdate", [kind |-> "old", change |-> "0"])>>
OldMetadata   == [val |-> ZeroStruct(BlockHeaderMetadataFields),
                  BalanceUpdates |-> <<>>, TestChainStatus |-> NilIface]

Calls == {"OperationElements", "BalanceUpdates", "BlockHeaderMetadata", "OperationAlt"}

\* An unmarshaller is about to be called with some JSON value.
DecInit ==
    /\ dpc = "call"
    /\ derr = nil
    /\ loopIdx = 0
    /\ call \in Calls
    /\ CASE call = "OperationElements" ->
                /\ data \in Arrays(OperationElemDocs, MaxElems) \cup NonArrays
                /\ target \in {<<>>, OldElements}
         [] call = "BalanceUpdates" ->
                /\ data \in Arrays(BalanceUpdateDocs, MaxElems) \cup NonArrays
                /\ target \in {<<>>, OldUpdates}
         [] call = "BlockHeaderMetadata" ->
                /\ data \in BlockHeaderMetadataDocs \cup NonArrays
                /\ target = OldMetadata
         [] call = "OperationAlt" ->
                /\ data \in Arrays(HeterogeneousDocs, MaxElems + 1) \cup NonArrays
                /\ target = ZeroOperation

\* The call returns.
Returned(r) ==
    /\ derr' = r.err
    /\ target' = r.e
    /\ loopIdx' = r.i
    /\ dpc' = "returned"
    /\ UNCHANGED <<call, data, decOthers>>

UnmarshalOperationElements ==
    /\ dpc = "call" /\ call = "OperationElements"
    /\ Returned(OperationElementsUnmarshalJSON(data, target))

UnmarshalBalanceUpdates ==
    /\ dpc = "call" /\ call = "BalanceUpdates"
    /\ Returned(BalanceUpdatesUnmarshalJSON(data, target))

UnmarshalBlockHeaderMetadata ==
    /\ dpc = "call" /\ call = "BlockHeaderMetadata"
    /\ Returned(BlockHeaderMetadataUnmarshalJSON(data, target))

UnmarshalOperationAlt ==
    /\ dpc = "call" /\ call = "OperationAlt"
    /\ Returned(OperationAltUnmarshalJSON(data, target))

\* No call of Do is under way.
DoIdle ==
    /\ SharedIdle
    /\ closed = FALSE
    /\ pkg = "go-tezos"
    /\ v = "nil"
    /\ chanCap = 0
    /\ dest = [Block |-> "init"]
    /\ ctxDone = FALSE
    /\ ctxErr = nil
    /\ pc = "idle"
    /\ resp = [StatusCode |-> 0, ContentType |-> <<>>]
    /\ body = <<>>
    /\ tail = ""
    /\ ended = "open"
    /\ pos = 0
    /\ chunkVal = ZeroElem
    /\ decErr = nil
    /\ ch = <<>>
    /\ accepting = FALSE
    /\ sent = <<>>
    /\ sentAfterDone = FALSE
    /\ err = nil
    /\ bodyClosed = 0
    /\ decodeCalls = 0

DecodersInit == DoIdle /\ HealthIdle /\ BootstrappedIdle /\ ListenerIdle /\ DecInit

DecodersNext ==
    \/ UnmarshalOperationElements
    \/ UnmarshalBalanceUpdates
    \/ UnmarshalBlockHeaderMetadata
    \/ UnmarshalOperationAlt

\* The unmarshallers, each called once on a JSON value.
DecodersSpec == DecodersInit /\ [][DecodersNext]_vars

----------------------------------------------------------------------------
(* Properties of the unmarshallers *)

\* A list unmarshaller has returned from a call on a JSON array.
ListReturned ==
    /\ dpc = "returned"
    /\ call \in {"OperationElements", "BalanceUpdates"}
    /\ data.t = "array"

\* The discriminator values with a variant of their own.
OperationKinds ==
    {"endorsement", "transaction", "ballot", "proposals", "seed_nonce_revelation",
     "double_endorsement_evidence", "double_baking_evidence", "activate_account",
     "reveal", "origination", "delegation"}
BalanceUpdateKinds == {"contract", "freezer"}
TestChainStatuses  == {"not_running", "forking", "running"}

RegisteredKinds == IF call = "OperationElements" THEN OperationKinds ELSE BalanceUpdateKinds

\* The string a JSON object has under a key ("" if it has none).
StringAt(doc, key) == IF key \in DOMAIN doc.fields THEN doc.fields[key].s ELSE ""

\* A JSON object whose discriminator is the one of no variant.
UnknownKind(doc, key, registered) ==
    /\ doc.t = "object"
    /\ key \in DOMAIN doc.fields => doc.fields[key].t = "string"
    /\ StringAt(doc, key) \notin registered

\* A JSON object whose discriminator is the one of a variant.
KnownKind(doc, key, registered) ==
    /\ doc.t = "object"
    /\ key \in DOMAIN doc.fields
    /\ doc.fields[key].t = "string"
    /\ doc.fields[key].s \in registered

\* The change of a balance update is absent or a string that holds an
\* integer.
ChangeDecodes(doc) ==
    "change" \in DOMAIN doc.fields =>
        doc.fields.change.t = "string" /\ doc.fields.change.s \in IntTexts

\* The generic fallback of a JSON object, read off the object.
Fallback(doc) ==
    IF call = "OperationElements"
    THEN Elem("GenericOperationElem", [kind |-> StringAt(doc, "kind")])
    ELSE Elem("GenericBalanceUpdate",
              [kind |-> StringAt(doc, "kind"),
               change |-> IF "change" \in DOMAIN doc.fields
                          THEN doc.fields.change.s ELSE "0"])

\* C11 (as claimed): no list decode fails at an element that is an object
\* of no registered kind.
UnknownKindNeverFails ==
    ListReturned =>
        \A i \in 1..Len(data.elems) :
            UnknownKind(data.elems[i], "kind", RegisteredKinds)
                => ~(derr # nil /\ loopIdx = i)

\* C11 (amended): an element that is an object of no registered kind and
\* whose common fields decode does not fail the list decode: once the loop
\* has reached it, the list holds its generic fallback with the common
\* fields of the object at its place, and the loop has gone on.
UnknownKindFallsBack ==
    ListReturned =>
        \A i \in 1..Len(data.elems) :
            (/\ UnknownKind(data.elems[i], "kind", RegisteredKinds)
             /\ call = "BalanceUpdates" => ChangeDecodes(data.elems[i])
             /\ loopIdx >= i)
            => /\ loopIdx > i
               /\ target[i] = Fallback(data.elems[i])

FallbackThenNextElement ==
    /\ ListReturned /\ call = "BalanceUpdates" /\ derr = nil
    /\ data.elems = <<BuFuture, BuContract>>
    /\ target[1].type = "GenericBalanceUpdate"
    /\ target[2].type = "ContractBalanceUpdate"

\* The block header metadata unmarshaller has returned from a call on an
\* object whose test chain status is an object with a string status.
MetadataReturned ==
    /\ dpc = "returned"
    /\ call = "BlockHeaderMetadata"
    /\ data.t = "object"
    /\ "test_chain_status" \in DOMAIN data.fields
    /\ data.fields.test_chain_status.t = "object"

VariantOf(key) ==
    CASE key = "endorsement"                 -> "EndorsementOperationElem"
      [] key = "transaction"                 -> "TransactionOperationElem"
      [] key = "ballot"                      -> "BallotOperationElem"
      [] key = "proposals"                   -> "ProposalOperationElem"
      [] key = "seed_nonce_revelation"       -> "SeedNonceRevelationOperationElem"
      [] key = "double_endorsement_evidence" -> "DoubleEndorsementEvidenceOperationElem"
      [] key = "double_baking_evidence"      -> "DoubleBakingEvidenceOperationElem"
      [] key = "activate_account"            -> "ActivateAccountOperationElem"
      [] key = "reveal"                      -> "RevealOperationElem"
      [] key = "origination"                 -> "OriginationOperationElem"
      [] key = "delegation"                  -> "DelegationOperationElem"
      [] key = "contract"                    -> "ContractBalanceUpdate"
      [] key = "freezer"                     -> "FreezerBalanceUpdate"
      [] key = "not_running"                 -> "NotRunningTestChainStatus"
      [] key = "forking"                     -> "ForkingTestChainStatus"
      [] key = "running"                     -> "RunningTestChainStatus"

\* The common fields of a decoded element are those of the generic decode
\* of the same object.
CommonFieldsAsGeneric(elem, doc, generic) ==
    \A k \in DOMAIN generic :
        /\ k \in DOMAIN elem.val
        /\ elem.val[k] = DecodeStruct(doc, generic).val[k]

\* C13: an element of a registered kind that a list decode has decoded is
\* of the variant of its kind, and its common fields hold what the generic
\* decode of the same object gives; so is the test chain status of a
\* decoded block header metadata.
KnownKindDecodesToItsVariant ==
    /\ ListReturned =>
        \A i \in 1..Len(data.elems) :
            (KnownKind(data.elems[i], "kind", RegisteredKinds) /\ loopIdx > i)
            => /\ target[i].type = VariantOf(data.elems[i].fields.kind.s)
               /\ CommonFieldsAsGeneric(target[i], data.elems[i],
                        IF call = "OperationElements"
                        THEN GenericOperationElem ELSE GenericBalanceUpdate)
    /\ (/\ MetadataReturned /\ derr = nil
        /\ KnownKind(data.fields.test_chain_status, "status", TestChainStatuses))
        => /\ target.TestChainStatus.type
                    = VariantOf(data.fields.test_chain_status.fields.status.s)
           /\ CommonFieldsAsGeneric(target.TestChainStatus,
                    data.fields.test_chain_status, GenericTestChainStatus)

BallotAndEndorsementDecoded ==
    /\ ListReturned /\ call = "OperationElements" /\ derr = nil
    /\ data.elems = <<OpBallot, OpEndorsement>>
    /\ target[1].type = "BallotOperationElem" /\ target[1].val.kind = "ballot"
    /\ target[2].val.level = "5"

\* What the receivers of the list unmarshallers hold before the call.
OldListElements == {NilIface, OldElements[1], OldUpdates[1]}

\* C14: a list decode that has failed at an element leaves nothing it has
\* decoded in the destination list.
FailedListDecodeLeavesNoElements ==
    (ListReturned /\ derr # nil) =>
        \A i \in 1..Len(target) :
            i < loopIdx => target[i] \in OldListElements

\* A decode of operation elements that fails at element i, which is of a
\* registered kind and does not fit its variant.
MismatchAt(doc, i) ==
    LET r == OperationElementsUnmarshalJSON(doc, <<>>) IN
    /\ r.err # nil
    /\ r.i = i
    /\ KnownKind(doc.elems[i], "kind", OperationKinds)

\* C15: the error of a decode of operation elements that fails at an
\* element of a registered kind tells the index of the element: no decode
\* that fails at another index returns the same error.
DecodeErrorTellsIndex ==
    (/\ ListReturned /\ call = "OperationElements"
     /\ loopIdx \in 1..Len(data.elems)
     /\ MismatchAt(data, loopIdx))
    => \A other \in Arrays(OperationElemDocs, MaxElems) :
            \A j \in 1..Len(other.elems) :
                (j # loopIdx /\ MismatchAt(other, j))
                    => OperationElementsUnmarshalJSON(other, <<>>).err # derr

\* The members of an array of at least two elements, decoded one after the
\* other into the hash of an Operation and into the Operation.
Positional(elems) ==
    LET first  == StringUnmarshal(elems[1], ZeroOperation, "hash")
        second == OperationUnmarshal(elems[2], first.val)
    IN  [first |-> first, second |-> second]

\* C16: unmarshalHeterogeneousJSONArray with the two targets of
\* OperationAlt fails on an array of fewer than two elements and has then
\* written to no target; on a longer array it decodes element 1 into the
\* hash and element 2 into the operation, fails if one of the two decodes
\* fails, and does not look at further elements.
HeterogeneousArrayIsPositional ==
    (dpc = "returned" /\ call = "OperationAlt" /\ data.t = "array") =>
        IF Len(data.elems) < 2
        THEN derr = TooShortError(2, Len(data.elems)) /\ target = ZeroOperation
        ELSE LET p == Positional(data.elems) IN
             /\ derr = nil <=> (p.first.err = nil /\ p.second.err = nil)
             /\ p.first.err # nil => derr = p.first.err /\ target = ZeroOperation
             /\ p.first.err = nil => derr = p.second.err /\ target = p.second.val

ThirdElementIgnored ==
    /\ dpc = "returned" /\ call = "OperationAlt"
    /\ data = Array(<<Str("oo1"), OpBody, Num("7")>>)
    /\ derr = nil
    /\ target.val.hash = "oo1" /\ target.val.branch = "BL"
    /\ Len(target.Contents) = 2

----------------------------------------------------------------------------
(* The outcomes of Do *)

CtxErrorTypes == {c.type : c \in CtxErrors}

\* The kinds of outcome, told from what Do returned and from the branch it
\* returned from.
IsSuccess      == err = nil
IsCancellation ==
    \/ err \in CtxErrors
    \/ err.type = "url.Error" /\ err.msg \in CtxErrorTypes
IsDecodeError  ==
    /\ ~ErrorBranch
    /\ err \in {SyntaxError, TypeError, EOF, ErrUnexpectedEOF}
IsPlainHTTPError == err.type = "httpError"
IsRPCError ==
    /\ err.type \in {"rpcError", "rpcErrors"}
    /\ Len(err.errors) >= 1
IsEmptyError ==
    /\ err.type = "plainError"
    /\ err.msg = "tezos: empty error response"
IsErrorDecodeFailure ==
    /\ err.type = "plainError"
    /\ err.msg # "tezos: empty error response"
\* The round trip failed, or a read of the body did, and not because the
\* context was done.
IsTransportError ==
    \/ err.type = "url.Error" /\ err.msg \notin CtxErrorTypes
    \/ err = TransportError
    \/ ErrorBranch /\ err \in {EOF, ErrUnexpectedEOF}

\* How many of the conditions hold.
Count(conds) == Cardinality({i \in 1..Len(conds) : conds[i]})

SevenKinds ==
    <<IsSuccess, IsDecodeError, IsPlainHTTPError, IsRPCError, IsEmptyError,
      IsErrorDecodeFailure, IsCancellation>>

\* C17 (as claimed): what Do returns is of exactly one of the seven kinds.
OutcomeIsOneOfSevenKinds ==
    pc = "done" => Count(SevenKinds) = 1

\* C17 (amended): what Do returns is of exactly one of eight kinds, the
\* seven and the transport error.
OutcomeIsOneOfEightKinds ==
    pc = "done" => Count(Append(SevenKinds, IsTransportError)) = 1

ConnectionResetMidStream ==
    /\ pc = "done" /\ Streaming /\ ~ctxDone
    /\ sent # <<>> /\ ended = "reset"
    /\ err = TransportError

----------------------------------------------------------------------------
(* HealthHandler.poll *)

MaxThreshold == 3
MaxPolls == 5

\* The values of the flag bootstraped-threshold the handler is made with.
Thresholds == -1 .. MaxThreshold

\* What one call of GetBootstrapped gives poll: an error, or a status, of
\* which poll reads Bootstrapped and whether SyncState is SyncStateSynced.
PollResults ==
    {[failed |-> TRUE, Bootstrapped |-> FALSE, Synced |-> FALSE]}
    \cup {[failed |-> FALSE, Bootstrapped |-> b, Synced |-> s] : b, s \in BOOLEAN}

\* status.Bootstrapped && status.SyncState == tezos.SyncStateSynced
Healthy(st) == st.Bootstrapped /\ st.Synced

\* What a poll leaves in the history: whether it failed, and what it observed.
Sample(st) == [failed |-> st.failed, ok |-> ~st.failed /\ Healthy(st)]

\* The first poll, before the ticker is made.
firstPoll(hh, st) ==
    [hh EXCEPT !.ok = IF st.failed THEN FALSE ELSE Healthy(st),
               !.tcount = hh.threshold]

\* A tickPoll that keeps counting over a sample of the current value.
tickPollWithoutRestart(hh, st) ==
    IF st.failed
    THEN [hh EXCEPT !.ok = FALSE, !.tcount = hh.threshold]
    ELSE LET ok == Healthy(st) IN
         IF ok # hh.ok
         THEN IF hh.tcount - 1 = 0
              THEN [hh EXCEPT !.tcount = hh.threshold, !.ok = ok]
              ELSE [hh EXCEPT !.tcount = hh.tcount - 1]
         ELSE hh

\* A tickPoll that leaves the counter alone when the call fails.
tickPollErrorKeepsCount(hh, st) ==
    IF st.failed
    THEN [hh EXCEPT !.ok = FALSE]
    ELSE LET ok == Healthy(st) IN
         IF ok # hh.ok
         THEN IF hh.tcount - 1 = 0
              THEN [hh EXCEPT !.tcount = hh.threshold, !.ok = ok]
              ELSE [hh EXCEPT !.tcount = hh.tcount - 1]
         ELSE [hh EXCEPT !.tcount = hh.threshold]

\* The body of the loop over the ticker.
tickPoll(hh, st) ==
    IF st.failed
    THEN [hh EXCEPT !.ok = FALSE, !.tcount = hh.threshold]
    ELSE LET ok == Healthy(st) IN
         IF ok # hh.ok
         THEN IF hh.tcount - 1 = 0
              THEN [hh EXCEPT !.tcount = hh.threshold, !.ok = ok]
              ELSE [hh EXCEPT !.tcount = hh.tcount - 1]
         ELSE [hh EXCEPT !.tcount = hh.threshold]

\* NewHealthHandler has made the handler and started poll.
HealthInit ==
    /\ h \in [threshold : Thresholds, tcount : {0}, ok : {FALSE}]
    /\ hpc = "start"
    /\ polls = <<>>
    /\ reported = <<>>

PollFirst(st) ==
    /\ hpc = "start"
    /\ h' = firstPoll(h, st)
    /\ hpc' = "tick"
    /\ polls' = <<Sample(st)>>
    /\ reported' = <<h'.ok>>
    /\ UNCHANGED healthOthers

PollTick(st) ==
    /\ hpc = "tick"
    /\ Len(polls) <= MaxPolls
    /\ h' = tickPoll(h, st)
    /\ polls' = Append(polls, Sample(st))
    /\ reported' = Append(reported, h'.ok)
    /\ UNCHANGED <<hpc, healthOthers>>

HealthNext ==
    \/ \E st \in PollResults : PollFirst(st)
    \/ \E st \in PollResults : PollTick(st)

\* Nothing else is going on.
HealthOnly ==
    DoIdle /\ DecodersIdle /\ BootstrappedIdle /\ ListenerIdle /\ HealthInit

\* One HealthHandler and its polls.
HealthSpec == HealthOnly /\ [][HealthNext]_vars

----------------------------------------------------------------------------
(* Properties of HealthHandler.poll *)

\* Every poll after the first one succeeded.
TicksAllSucceeded == \A i \in 2..Len(polls) : ~polls[i].failed

\* Poll k is the n-th in a row of ticks that observed the opposite of the
\* status stored before it.
NthOppositeInARow(k, n) ==
    /\ k - n >= 1
    /\ \A j \in (k - n + 1)..k : polls[j].ok # reported[k - 1]

\* C20: with a threshold N >= 1 and ticks that all succeed, the stored
\* status changes at a tick exactly when that tick is the N-th in a row
\* to observe the opposite of the stored status: not before, and not when
\* a tick that observed the stored status came in between.
StatusFlipsAtNthOppositeSample ==
    (h.threshold >= 1 /\ TicksAllSucceeded) =>
        \A k \in 2..Len(polls) :
            (reported[k] # reported[k - 1]) <=> NthOppositeInARow(k, h.threshold)

\* With threshold 3: an opposite sample, a sample of the stored value, and
\* then three opposite samples, the last of which changes the status.
FlipAfterRestartedCount ==
    /\ h.threshold = 3
    /\ Len(polls) = 6
    /\ TicksAllSucceeded
    /\ reported = <<TRUE, TRUE, TRUE, TRUE, TRUE, FALSE>>
    /\ [i \in 1..6 |-> polls[i].ok] = <<TRUE, FALSE, TRUE, FALSE, FALSE, FALSE>>
    /\ h.ok = FALSE /\ h.tcount = 3

----------------------------------------------------------------------------
(* getBootstrapped of the network collector *)

Canceled         == Error("context.Canceled")
DeadlineExceeded == Error("context.DeadlineExceeded")

\* make(chan *tezos.BootstrappedBlock, 10)
bootstrappedChanCap == 10

\* Records of a flooding node: enough to fill the buffer after two records
\* were received and to leave Do with one more to send.
MaxFlood == 13

\* err.(net.Error) with Timeout(): context.DeadlineExceeded is one, and so
\* is the *url.Error of the http client that wraps it.
IsTimeout(e) ==
    \/ e = DeadlineExceeded
    \/ e.type = "url.Error" /\ e.msg = DeadlineExceeded.type

\* A bootstrappedResult that returns every error of the monitor.
bootstrappedResultWithoutTimeoutTest(e) ==
    IF e # nil
    THEN [ok |-> FALSE, err |-> e]
    ELSE [ok |-> TRUE, err |-> nil]

\* A bootstrappedResult that takes every error for a negative result.
bootstrappedResultWithoutError(e) ==
    IF e # nil
    THEN [ok |-> FALSE, err |-> nil]
    ELSE [ok |-> TRUE, err |-> nil]

\* What getBootstrapped returns once the channel is closed and drained.
bootstrappedResult(e) ==
    IF e # nil
    THEN IF IsTimeout(e)
         THEN [ok |-> FALSE, err |-> nil]
         ELSE [ok |-> FALSE, err |-> e]
    ELSE [ok |-> TRUE, err |-> nil]

\* getBootstrapped has derived its context, made the channel and started
\* the goroutine that calls GetBootstrapped, which calls Do.
BootstrappedInit ==
    /\ pkg = "vendor"
    /\ v = "chan"
    /\ chanCap = bootstrappedChanCap
    /\ DoCalled
    /\ gbPc = "loop"
    /\ cnt = 0
    /\ gbClosed = FALSE
    /\ gbRes = [ok |-> FALSE, err |-> nil]

\* getBootstrapped returns: the deferred cancel() runs.
BootstrappedReturn(res, at) ==
    /\ gbRes' = res
    /\ gbPc' = "returned"
    /\ ctxDone' = TRUE
    /\ ctxErr' = IF ctxDone THEN ctxErr ELSE Canceled
    /\ pc' = IF at = "blocked" THEN "cancelled" ELSE at

\* for range ch: a record is received; the second one ends the call.
BootstrappedRecv ==
    /\ gbPc = "loop"
    /\ ch # <<>>
    /\ IF pc = "blocked"
       THEN /\ ch' = Append(Tail(ch), chunkVal)
            /\ sent' = Append(sent, chunkVal)
       ELSE /\ ch' = Tail(ch)
            /\ UNCHANGED sent
    /\ IF cnt > 0
       THEN /\ BootstrappedReturn([ok |-> FALSE, err |-> nil],
                                  IF pc = "blocked" THEN "decode" ELSE pc)
            /\ UNCHANGED cnt
       ELSE /\ cnt' = cnt + 1
            /\ pc' = IF pc = "blocked" THEN "decode" ELSE pc
            /\ UNCHANGED <<gbPc, gbRes, ctxDone, ctxErr>>
    /\ UNCHANGED <<pkg, v, chanCap, dest, resp, body, tail, ended, pos, chunkVal,
                   decErr, accepting, sentAfterDone, err, bodyClosed, decodeCalls,
                   gbClosed, gbOthers>>

\* The goroutine: GetBootstrapped has returned, close(ch).
BootstrappedClose ==
    /\ pc = "done"
    /\ ~gbClosed
    /\ gbClosed' = TRUE
    /\ UNCHANGED <<doVars, gbPc, cnt, gbRes, gbOthers>>

\* for range ch ends on the closed and drained channel.
BootstrappedRangeEnds ==
    /\ gbPc = "loop"
    /\ ch = <<>>
    /\ gbClosed
    /\ BootstrappedReturn(bootstrappedResult(err), pc)
    /\ UNCHANGED <<pkg, v, chanCap, dest, resp, body, tail, ended, pos, chunkVal,
                   decErr, ch, accepting, sent, sentAfterDone, err, bodyClosed,
                   decodeCalls, cnt, gbClosed, gbOthers>>

\* The node goes on writing records of the same block for as long as it
\* takes to fill the buffer of the channel behind a slow getBootstrapped.
ServerFlood ==
    /\ pc # "start"
    /\ ended = "open"
    /\ MaxBody <= Len(body) /\ Len(body) < MaxFlood
    /\ \A i \in 1..Len(body) : body[i] = Block1
    /\ body' = Append(body, Block1)
    /\ UNCHANGED <<pkg, v, chanCap, dest, ctxDone, ctxErr, pc, resp, tail, ended,
                   pos, chunkVal, decErr, ch, accepting, sent, sentAfterDone,
                   err, bodyClosed, decodeCalls, auxVars>>

BootstrappedNext ==
    \/ \E d \in StreamDocs \cup ErrorDocs : ServerWrite(d)
    \/ ServerFlood
    \/ \E be \in BodyEnds : ServerEnd(be[1], be[2])
    \/ \E e \in CtxErrors : Cancel(e)
    \/ DoRoundTripFails
    \/ \E code \in StatusCodes : DoRoundTrip(code)
    \/ StreamDecode
    \/ StreamSelect
    \/ StreamCancelled
    \/ \E ctype \in ContentTypes : DoHandleErrors(ctype)
    \/ BootstrappedRecv
    \/ BootstrappedClose
    \/ BootstrappedRangeEnds

BootstrappedOnly ==
    DecodersIdle /\ HealthIdle /\ ListenerIdle /\ BootstrappedInit

\* One call of getBootstrapped, with the node, the deadline and the owner
\* of the parent context.
BootstrappedSpec == BootstrappedOnly /\ [][BootstrappedNext]_vars

----------------------------------------------------------------------------
(* Properties of getBootstrapped *)

\* What the monitor returns when it was the deadline that ended it.
DeadlineErrors ==
    {DeadlineExceeded, [Error("url.Error") EXCEPT !.msg = DeadlineExceeded.type]}

\* C18: getBootstrapped never returns the expiry of the deadline as an
\* error: when the monitor was ended by it, while connecting or while
\* streaming, the result is (false, nil).
DeadlineIsNotAnError ==
    gbPc = "returned" =>
        /\ gbRes.err \notin DeadlineErrors
        /\ (pc = "done" /\ err \in DeadlineErrors) => gbRes = [ok |-> FALSE, err |-> nil]

\* The deadline passed in the stream after a single record, which had it
\* been the whole stream would have meant bootstrapped.
DeadlineAfterOneRecord ==
    /\ gbPc = "returned"
    /\ cnt = 1 /\ Len(sent) = 1
    /\ ctxErr = DeadlineExceeded
    /\ err = DeadlineExceeded
    /\ gbRes = [ok |-> FALSE, err |-> nil]

------------------------------------------------------------

----------------------------------------------------------------------------
(* The listener of the mempool collector *)

MaxAttempts == 2
MaxLists == 2
MaxTime == 1

\* make(chan []*tezos.Operation, 100)
mempoolChanCap == 100

\* What Do returns to a caller that passed a channel: from the streaming
\* loop, possibly after it has sent elements; from client.Do; and for a
\* response that is not a success, where errors of a type that carries the
\* response are taken by type.
StreamErrors ==
    {nil, Canceled, DeadlineExceeded, SyntaxError, TypeError, TransportError,
     ErrUnexpectedEOF}
RoundTripErrors ==
    {[Error("url.Error") EXCEPT !.msg = m] :
        m \in {nil.type, Canceled.type, DeadlineExceeded.type}}
ResponseErrorTypes == {"httpError", "plainError", "rpcError", "rpcErrors"}
ResponseErrors ==
    {Error(t) : t \in ResponseErrorTypes}
    \cup {Canceled, DeadlineExceeded, TransportError, EOF, ErrUnexpectedEOF}

ErrorKind(e) == IF e.type \in ResponseErrorTypes THEN Error(e.type) ELSE e

\* Do returns nothing else to such a caller, and has sent nothing unless
\* it returns from the streaming loop.
DoReturnsToChannelCaller ==
    (pc = "done" /\ v = "chan") =>
        \/ ~ErrorBranch /\ err \in StreamErrors
        \/ sent = <<>> /\ err \in RoundTripErrors
        \/ sent = <<>> /\ ErrorBranch /\ ErrorKind(err) \in ResponseErrors

\* What a call of MonitorMempoolOperations can do under the context of the
\* listener, which has no deadline: the error it returns and the number of
\* lists of operations it has sent to the channel before.
MonitorOutcomes ==
    LET possible(e) ==
            /\ e \notin {DeadlineExceeded} /\ e.msg # DeadlineExceeded.type
            /\ (e = Canceled \/ e.msg = Canceled.type) => (ctxDone /\ ctxErr = Canceled)
    IN  {[err |-> e, n |-> n] : e \in {x \in StreamErrors : possible(x)}, n \in 0..MaxLists}
        \cup {[err |-> e, n |-> 0] :
                e \in {x \in RoundTripErrors \cup ResponseErrors : possible(x)}}

\* A listenerReturns that also takes the end of the stream for the end.
listenerReturnsAtEndOfStream(e) == e = Canceled \/ e = nil

\* err == context.Canceled
listenerReturns(e) == e = Canceled

\* The collector has been made with no pool or with one, and has added one
\* to its WaitGroup for the pool and started its listener.  The listener
\* has made its channel and started the goroutine that counts; with the
\* package of the repository it monitors under context.Background(), with
\* the vendored one under the context of the collector.  The calls of Do
\* are taken whole, by their outcomes.
ListenerInit ==
    /\ pkg \in Pkgs
    /\ v = "chan"
    /\ chanCap = mempoolChanCap
    /\ DoCalled
    /\ pools \in {0, 1}
    /\ wg = pools
    /\ sem = FALSE
    /\ callerDone = FALSE
    /\ sdPc = "idle"
    /\ sdRes = nil
    /\ lpc = IF pools = 0 THEN "idle" ELSE "loop"
    /\ outcomes = <<>>
    /\ counter = NoCounts
    /\ delivered = <<>>
    /\ lClosed = FALSE
    /\ now = 0
    /\ times = <<>>

\* Shutdown is called: m.cancel() cancels the context of the listeners,
\* the goroutine that waits for the WaitGroup is started, and Shutdown
\* comes to its select.
Shutdown ==
    /\ pkg = "vendor"
    /\ sdPc = "idle"
    /\ sdPc' = "select"
    /\ ctxDone' = TRUE
    /\ ctxErr' = Canceled
    /\ UNCHANGED <<pkg, v, chanCap, dest, pc, resp, body, tail, ended, pos,
                   chunkVal, decErr, ch, accepting, sent, sentAfterDone, err,
                   bodyClosed, decodeCalls, pools, wg, sem, callerDone, sdRes,
                   listenerVars, decVars, healthVars, gbVars, callerVars, sharedVars>>

\* The goroutine of Shutdown: m.wg.Wait() returns, close(sem).
ShutdownWaited ==
    /\ sdPc # "idle"
    /\ wg = 0
    /\ ~sem
    /\ sem' = TRUE
    /\ UNCHANGED <<doVars, pools, wg, callerDone, sdPc, sdRes,
                   listenerVars, decVars, healthVars, gbVars, callerVars, sharedVars>>

\* The context passed to Shutdown is cancelled, or its deadline passes.
ShutdownCallerDone(e) ==
    /\ sdPc = "select"
    /\ ~callerDone
    /\ callerDone' = TRUE
    /\ sdRes' = e
    /\ UNCHANGED <<doVars, pools, wg, sem, sdPc,
                   listenerVars, decVars, healthVars, gbVars, callerVars, sharedVars>>

\* The select of Shutdown: nil on the closed sem, ctx.Err() on the done
\* context (sdRes holds ctx.Err() from the moment the context is done).
ShutdownReturns ==
    /\ sdPc = "select"
    /\ sem \/ callerDone
    /\ sdPc' = "returned"
    /\ \/ sem /\ sdRes' = nil
       \/ callerDone /\ sdRes' = sdRes
    /\ UNCHANGED <<doVars, pools, wg, sem, callerDone,
                   listenerVars, decVars, healthVars, gbVars, callerVars, sharedVars>>

\* The kinds of the content elements of a list of operations: the i-th list
\* of a call has i - 1 of them, of alternating kinds.
Contents(list) ==
    [j \in 1..(list[2] - 1) |-> IF j % 2 = 1 THEN "endorsement" ELSE "transaction"]

\* How many content elements of kind k a list has.
ElemsOfKind(list, k) == Cardinality({j \in DOMAIN Contents(list) : Contents(list)[j] = k})

\* The counter after a list was counted twice over.
CountedTwice(c, list) == [k \in ElemKinds |-> c[k] + 2 * ElemsOfKind(list, k)]

\* for _, op := range ops { for _, elem := range op.Contents { ...Inc() } }
Counted(c, list) == [k \in ElemKinds |-> c[k] + ElemsOfKind(list, k)]

\* The counting goroutine receives a list of operations and counts it.
ListenerCount ==
    /\ lpc # "idle"
    /\ ch # <<>>
    /\ ch' = Tail(ch)
    /\ counter' = Counted(counter, Head(ch))
    /\ UNCHANGED <<pkg, v, chanCap, dest, ctxDone, ctxErr, pc, resp, body, tail,
                   ended, pos, chunkVal, decErr, accepting, sent, sentAfterDone,
                   err, bodyClosed, decodeCalls, lpc, outcomes, delivered, lClosed,
                   now, times, listenerOthers>>

\* The lists a call sends, told apart by the call and their place in it.
Lists(attempt, n) == [i \in 1..n |-> <<attempt, i>>]

\* One call of MonitorMempoolOperations on the channel of the listener.
Monitor(out) ==
    /\ Len(ch) + out.n <= chanCap
    /\ ch' = ch \o Lists(Len(outcomes) + 1, out.n)
    /\ delivered' = delivered \o Lists(Len(outcomes) + 1, out.n)
    /\ outcomes' = Append(outcomes, out.err)
    /\ times' = Append(times, now)
    /\ UNCHANGED <<pkg, v, chanCap, dest, ctxDone, ctxErr, pc, resp, body, tail,
                   ended, pos, chunkVal, decErr, accepting, sent, sentAfterDone,
                   err, bodyClosed, decodeCalls, counter, now, listenerOthers>>

\* The call returned something else than context.Canceled: the loop goes
\* round and calls again.
ListenerRetry(out) ==
    /\ lpc = "loop"
    /\ Len(outcomes) < MaxAttempts
    /\ ~listenerReturns(out.err)
    /\ Monitor(out)
    /\ UNCHANGED <<lpc, lClosed>>

\* The call returned context.Canceled: the listener returns, and its
\* deferred close(ch) runs.
ListenerReturn(out) ==
    /\ lpc = "loop"
    /\ Len(outcomes) < MaxAttempts
    /\ listenerReturns(out.err)
    /\ Monitor(out)
    /\ lpc' = "returned"
    /\ lClosed' = TRUE

\* Time passes: one more retry delay has elapsed.
ListenerTick ==
    /\ lpc = "loop"
    /\ now < MaxTime
    /\ now' = now + 1
    /\ UNCHANGED <<doVars, lpc, outcomes, counter, delivered, lClosed, times,
                   listenerOthers>>

ListenerNext ==
    \/ ListenerTick
    \/ Shutdown
    \/ ShutdownWaited
    \/ \E e \in CtxErrors : ShutdownCallerDone(e)
    \/ ShutdownReturns
    \/ ListenerCount
    \/ \E out \in MonitorOutcomes : ListenerRetry(out)
    \/ \E out \in MonitorOutcomes : ListenerReturn(out)

ListenerOnly ==
    DecodersIdle /\ HealthIdle /\ BootstrappedIdle /\ ListenerInit

\* One listener, with the node and the collector that may cancel it.
ListenerSpec == ListenerOnly /\ [][ListenerNext]_vars

----------------------------------------------------------------------------
(* Properties of the listener *)

\* The listener is in its loop and may call again.
Listening == lpc = "loop" /\ ~lClosed

\* C19: the listener returns only when a call has returned
\* context.Canceled, and then it does; after every other outcome, the end
\* of the stream without an error among them, it is still in its loop, on
\* the channel it made, with what the channel holds.
ListenerResubscribesUnlessCanceled ==
    [][/\ (Len(outcomes') > Len(outcomes)) =>
            LET e == outcomes'[Len(outcomes')] IN
            IF e = Canceled
            THEN lpc' = "returned"
            ELSE /\ Listening'
                 /\ chanCap' = chanCap
                 /\ \E n \in 0..MaxLists : ch' = ch \o Lists(Len(outcomes'), n)
       /\ (lpc = "loop" /\ lpc' # "loop") =>
            /\ Len(outcomes') > Len(outcomes)
            /\ outcomes'[Len(outcomes')] = Canceled
      ]_vars

\* A stream ended without an error with a list still in the channel, and
\* the next call has sent another list to the same channel.
ResubscribedAfterEndOfStream ==
    /\ Listening
    /\ Len(outcomes) = 2
    /\ outcomes[1] = nil
    /\ ch = <<<<1, 1>>, <<2, 1>>>>

\* C21: after an attempt that ended with an error the next attempt does
\* not start before the retry delay has elapsed.
RetryWaitsForTheDelay ==
    \A i \in 1..(Len(outcomes) - 1) :
        outcomes[i] # nil => times[i + 1] > times[i]

\* Every listener the collector started has returned.
ListenersStopped == pools = 0 \/ lpc = "returned"

\* C22: once Shutdown has cancelled the context and the listeners have
\* returned, the wait for the WaitGroup is over, so that Shutdown returns
\* nil; and Shutdown returns an error only when the context it was passed
\* is done.
ShutdownReturnsOnceListenersStopped ==
    /\ (sdPc # "idle" /\ ListenersStopped) => wg = 0
    /\ (sdPc = "returned" /\ sdRes # nil) => callerDone

----------------------------------------------------------------------------
(* Do and the close of the sink *)

CloseNext ==
    \/ Next
    \/ CallerClose

\* One call of Do, with a caller that closes the sink after it.
CloseSpec == Init /\ [][CloseNext]_vars

\* A step leaves the buffer of the sink as it is or takes its oldest element.
OnlyTakenFrom == ch' = ch \/ (ch # <<>> /\ ch' = Tail(ch))

\* C23: once Do has returned, whatever it returned, nothing more is sent
\* to the sink: the buffer is only taken from; and as the caller closes
\* the sink only after Do has returned, nothing is ever sent to a closed
\* sink.
NoSendAfterDoReturned ==
    [][/\ pc = "done" => (sent' = sent /\ OnlyTakenFrom)
       /\ closed => (sent' = sent /\ OnlyTakenFrom)
      ]_vars

\* Do returned an error after it had sent elements, the caller closed the
\* sink, and an element is still waiting in its buffer.
ClosedAfterFailedStream ==
    /\ pc = "done" /\ closed
    /\ err # nil
    /\ sent # <<>> /\ ch # <<>>

----------------------------------------------------------------------------
(* HealthHandler.poll and failed calls *)

\* C24: a poll whose call failed leaves the status unhealthy and the
\* counter at the threshold, whatever they were; and the status turns
\* healthy at a tick only when that tick and the ticks before it, as many
\* as the threshold says, all succeeded and observed healthy, so that
\* none of them is the failed poll or older.
FailedPollIsUnhealthyAtOnce ==
    /\ (polls # <<>> /\ polls[Len(polls)].failed) =>
            (~h.ok /\ h.tcount = h.threshold)
    /\ \A k \in 2..Len(polls) :
            (reported[k] /\ ~reported[k - 1]) =>
                /\ k - h.threshold >= 1
                /\ \A j \in (k - h.threshold + 1)..k :
                        ~polls[j].failed /\ polls[j].ok

\* With threshold 3: healthy, one unhealthy sample, a failed call that
\* turns the status at once, and then three healthy samples to recover.
RecoveredAfterFailedPoll ==
    /\ h.threshold = 3
    /\ Len(polls) = 6
    /\ [i \in 1..6 |-> polls[i].failed] = <<FALSE, FALSE, TRUE, FALSE, FALSE, FALSE>>
    /\ [i \in 1..6 |-> polls[i].ok] = <<TRUE, FALSE, FALSE, TRUE, TRUE, TRUE>>
    /\ reported = <<TRUE, TRUE, FALSE, FALSE, FALSE, TRUE>>

----------------------------------------------------------------------------
(* HealthHandler.ServeHTTP *)

StatusOK == 200
StatusInternalServerError == 500

\* What the handler answers: the status code and the body.
ServeHTTP(hh) ==
    [status |-> IF hh.ok THEN StatusOK ELSE StatusInternalServerError,
     Bootstrapped |-> hh.ok]

\* The last n polls are ticks that succeeded and observed val.
LastTicksObserved(n, val) ==
    /\ Len(polls) - n >= 1
    /\ \A j \in (Len(polls) - n + 1)..Len(polls) :
            ~polls[j].failed /\ polls[j].ok = val

\* C25: whatever the threshold, when the polls succeed and observe the
\* same value from some poll on, the handler comes to report that value:
\* it does once as many ticks as the threshold says, and one at least,
\* have observed it.
SustainedValueIsReported ==
    \A n \in 1..(Len(polls) - 1) : \A val \in BOOLEAN :
        (n >= h.threshold /\ LastTicksObserved(n, val)) =>
            ServeHTTP(h).Bootstrapped = val

\* The same for the thresholds from 1 on.
SustainedValueIsReportedFromOne ==
    h.threshold >= 1 => SustainedValueIsReported

----------------------------------------------------------------------------
(* The results of getBootstrapped *)

\* C26: at its return getBootstrapped gives (true, nil) exactly when the
\* stream has ended without an error after at most one record; (false,
\* nil) exactly when it has just received a second record or the stream
\* was ended by the deadline; and (false, err) exactly when the stream
\* ended with another error err before a second record was received.
ResultTellsHowTheStreamEnded ==
    [][(gbPc = "loop" /\ gbPc' = "returned") =>
          LET second == ch # <<>> /\ cnt = 1 /\ Len(sent) >= 2
              ended0 == ch = <<>> /\ pc = "done" /\ gbClosed /\ cnt = Len(sent)
          IN  /\ second \/ ended0
              /\ gbRes' = [ok |-> TRUE, err |-> nil] <=>
                    (ended0 /\ err = nil /\ Len(sent) <= 1)
              /\ gbRes' = [ok |-> FALSE, err |-> nil] <=>
                    (second \/ (ended0 /\ err \in DeadlineErrors))
              /\ gbRes'.err # nil <=>
                    (ended0 /\ err \notin DeadlineErrors \cup {nil})
              /\ gbRes'.err # nil => gbRes' = [ok |-> FALSE, err |-> err]
      ]_vars

\* The stream broke on a value that is not JSON after one record.
SyntaxErrorAfterOneRecord ==
    /\ gbPc = "returned"
    /\ cnt = 1 /\ Len(sent) = 1
    /\ gbRes = [ok |-> FALSE, err |-> SyntaxError]

-----------------------------------------------------------------------------
(* The goroutine of getBootstrapped *)

\* go func() { err = c.service.MonitorBootstrapped(ctx, ch); close(ch) }()
BootstrappedGoroutine ==
    \/ DoRoundTripFails
    \/ \E code \in StatusCodes : DoRoundTrip(code)
    \/ StreamDecode
    \/ StreamSelect
    \/ StreamCancelled
    \/ \E ctype \in ContentTypes : DoHandleErrors(ctype)
    \/ BootstrappedClose

\* The Go scheduler runs the goroutine whenever it can take a step, and the
\* timer of context.WithTimeout(ctx, c.timeout) fires.
FairBootstrappedSpec ==
    BootstrappedSpec /\ WF_vars(BootstrappedGoroutine) /\ WF_vars(Cancel(DeadlineExceeded))

\* C27: the goroutine that runs the streaming request of getBootstrapped
\* always comes to its end and closes the channel, whatever the node does
\* and whether or not getBootstrapped has returned before it.
GoroutineEndsAndCloses == <>(pc = "done" /\ gbClosed)

\* getBootstrapped returned on the second record and left the buffer of the
\* channel full; Do gave up its next send with context.Canceled and the
\* goroutine closed the channel.
ClosedBehindAFullChannel ==
    /\ gbPc = "returned" /\ gbRes = [ok |-> FALSE, err |-> nil] /\ cnt = 1
    /\ Len(ch) = bootstrappedChanCap
    /\ Len(body) > Len(sent)
    /\ pc = "done" /\ err = Canceled /\ gbClosed

-----------------------------------------------------------------------------
(* The counting of the mempool listener *)

RECURSIVE ElemsIn(_, _)
\* The content elements of kind k in a sequence of lists.
ElemsIn(lists, k) ==
    IF lists = <<>> THEN 0 ELSE ElemsOfKind(Head(lists), k) + ElemsIn(Tail(lists), k)

\* The lists in the channel are the last ones sent, in the order sent.
AwaitCounting ==
    /\ Len(ch) <= Len(delivered)
    /\ ch = SubSeq(delivered, Len(delivered) - Len(ch) + 1, Len(delivered))

\* The counter of a kind and the elements of that kind still in the channel
\* make up the elements of that kind sent so far, by all the calls.
CounterMatchesDelivered ==
    /\ AwaitCounting
    /\ \A k \in ElemKinds : counter[k] + ElemsIn(ch, k) = ElemsIn(delivered, k)

-----------------------------------------------------------------------------
(* The Service the collectors share *)

\* The transports main can give the RPCClient: none, or one of its own.
\* A transport is the chain of its wrappers, outermost first.
Transports == {<<>>, <<"custom">>}

\* client, err := tezos.NewRPCClient(...); service := &tezos.Service{Client: client}
NewService(tr) ==
    /\ heap[SharedService] = Free
    /\ heap' = [heap EXCEPT
                    ![SharedClient] = [Transport |-> tr, RPCStatusCallback |-> "nil",
                                       RPCHeaderCallback |-> "nil"],
                    ![SharedService] = [Client |-> SharedClient]]
    /\ UNCHANGED <<doVars, decVars, healthVars, gbVars, listenerVars, shutdownVars,
                   callerVars, tasks>>

\* The calls of the model: a scrape, and the constructor of the mempool
\* collector as the repository has it and as the later version has it.
TaskKinds == {"Collect", "NewMempoolTransport", "NewMempoolCallbacks"}

\* A client that is the client of the shared Service itself, not a copy.
clientOfSharedService(t) == heap[SharedService].Client

\* client := *service.Client: the address of the local variable client.
clientOf(t) == <<t, "client">>

\* srv := *service: the address of the local variable srv.
srvOf(t) == <<t, "srv">>

\* One statement of call t: it is at position from, goes to position to
\* and leaves the heap as newHeap.
Statement(t, from, to, newHeap) ==
    /\ tasks[t].pc = from
    /\ tasks' = [tasks EXCEPT ![t].pc = to]
    /\ heap' = newHeap
    /\ UNCHANGED <<doVars, decVars, healthVars, gbVars, listenerVars, shutdownVars,
                   callerVars>>

\* Collect or a constructor is called with the shared Service.
TaskStart(t, kind) ==
    /\ heap[SharedService] # Free
    /\ tasks[t].pc = "idle"
    /\ tasks' = [tasks EXCEPT ![t] = [kind |-> kind, pc |-> "copyClient"]]
    /\ UNCHANGED <<doVars, decVars, healthVars, gbVars, listenerVars, shutdownVars,
                   callerVars, heap>>

\* client := *c.service.Client
CopyClient(t) ==
    Statement(t, "copyClient",
              IF tasks[t].kind = "NewMempoolTransport" THEN "defaultTransport"
              ELSE "statusCallback",
              [heap EXCEPT ![clientOf(t)] = heap[heap[SharedService].Client]])

\* client.RPCStatusCallback = func(...) {...}
SetStatusCallback(t) ==
    Statement(t, "statusCallback",
              IF tasks[t].kind = "Collect" THEN "copyService" ELSE "headerCallback",
              [heap EXCEPT ![clientOf(t)].RPCStatusCallback = tasks[t].kind])

\* client.RPCHeaderCallback = func(...) {...}
SetHeaderCallback(t) ==
    Statement(t, "headerCallback", "copyService",
              [heap EXCEPT ![clientOf(t)].RPCHeaderCallback = tasks[t].kind])

\* if client.Transport == nil { client.Transport = http.DefaultTransport }
SetDefaultTransport(t) ==
    Statement(t, "defaultTransport", "instrumentDuration",
              IF heap[clientOf(t)].Transport = <<>>
              THEN [heap EXCEPT ![clientOf(t)].Transport = <<"DefaultTransport">>]
              ELSE heap)

\* client.Transport = promhttp.InstrumentRoundTripperDuration(c.rpcTotalHist, client.Transport)
InstrumentDuration(t) ==
    Statement(t, "instrumentDuration", "instrumentTrace",
              [heap EXCEPT ![clientOf(t)].Transport = <<"duration">> \o @])

\* client.Transport = promhttp.InstrumentRoundTripperTrace(&it, client.Transport)
InstrumentTrace(t) ==
    Statement(t, "instrumentTrace", "copyService",
              [heap EXCEPT ![clientOf(t)].Transport = <<"trace">> \o @])

\* srv := *service
CopyService(t) ==
    Statement(t, "copyService", "serviceClient",
              [heap EXCEPT ![srvOf(t)] = heap[SharedService]])

\* srv.Client = &client.  The constructor keeps &srv in c.service; Collect
\* goes on to its requests.
SetServiceClient(t) ==
    Statement(t, "serviceClient",
              IF tasks[t].kind = "Collect" THEN "requests" ELSE "made",
              [heap EXCEPT ![srvOf(t)].Client = clientOf(t)])

\* Collect has made its requests and returns: its local variables are gone,
\* and the registry may call it again.
CollectReturns(t) ==
    /\ tasks[t].kind = "Collect"
    /\ Statement(t, "requests", "idle",
                 [heap EXCEPT ![srvOf(t)] = Free, ![clientOf(t)] = Free])

SharedNext ==
    \/ \E tr \in Transports : NewService(tr)
    \/ \E t \in 1..MaxTasks, kind \in TaskKinds : TaskStart(t, kind)
    \/ \E t \in 1..MaxTasks : CopyClient(t)
    \/ \E t \in 1..MaxTasks : SetStatusCallback(t)
    \/ \E t \in 1..MaxTasks : SetHeaderCallback(t)
    \/ \E t \in 1..MaxTasks : SetDefaultTransport(t)
    \/ \E t \in 1..MaxTasks : InstrumentDuration(t)
    \/ \E t \in 1..MaxTasks : InstrumentTrace(t)
    \/ \E t \in 1..MaxTasks : CopyService(t)
    \/ \E t \in 1..MaxTasks : SetServiceClient(t)
    \/ \E t \in 1..MaxTasks : CollectReturns(t)

SharedOnly ==
    DoIdle /\ DecodersIdle /\ HealthIdle /\ BootstrappedIdle /\ ListenerIdle

\* main makes the Service; scrapes and constructions of collectors run on
\* it side by side, statement by statement.
SharedSpec == SharedOnly /\ [][SharedNext]_vars

\* C29: no statement of Collect or of a constructor of the mempool
\* collector changes the Service or the RPCClient it was given: once made,
\* the two stay as main made them.
SharedServiceNeverModified ==
    [][heap[SharedService] # Free =>
            /\ heap'[SharedService] = heap[SharedService]
            /\ heap'[SharedClient] = heap[SharedClient]]_vars

\* A scrape has installed its callback and a constructor its instrumented
\* transport, each on its own copy and side by side, and the client made by
\* main has neither.
PrivateCopiesInstrumented ==
    /\ tasks[1] = [kind |-> "Collect", pc |-> "requests"]
    /\ tasks[2] = [kind |-> "NewMempoolTransport", pc |-> "made"]
    /\ heap[heap[srvOf(1)].Client].RPCStatusCallback = "Collect"
    /\ heap[heap[srvOf(2)].Client].Transport = <<"trace", "duration", "DefaultTransport">>
    /\ heap[SharedClient] = [Transport |-> <<>>, RPCStatusCallback |-> "nil",
                             RPCHeaderCallback |-> "nil"]

====
